---- MODULE Spec2Model ----
(***************************************************************************)
(* Preference memory of the v6 flower chatbot (src/v6_chat_bot.py):        *)
(* MemoryState, MemoryState.update_from_dict, parse_user_input and         *)
(* FlowerConsultant.ask, one conversation.                                 *)
(***************************************************************************)
EXTENDS Integers, Sequences, FiniteSets, TLC

\* ------------------------------------------------------------------------
\* Bounds
\* ------------------------------------------------------------------------
\* number of turns (calls of FlowerConsultant.ask) of one conversation
MaxTurns == 2
\* number of products of a table flowers that is sampled
MaxProducts == 9
\* random() returns one of 0/RandomSteps, ..., (RandomSteps - 1)/RandomSteps
RandomSteps == 4
\* number of requests the web server accepts
MaxRequests == 3
\* number of calls of FlowerConsultantChat.ask of one consultation
MaxMessages == 4

\* ------------------------------------------------------------------------
\* Program constants
\* ------------------------------------------------------------------------
\* the number of rows of one answer (the 6 of build_sql_from_memory)
WindowSize == 6

\* ------------------------------------------------------------------------
\* JSON / Python values, tagged with their type
\* ------------------------------------------------------------------------
Null == [t |-> "null"]
Bool(b) == [t |-> "bool", b |-> b]
Num(n) == [t |-> "num", n |-> n]
Str(s) == [t |-> "str", s |-> s]
List(l) == [t |-> "list", l |-> l]
\* a JSON object nested in the update (the budget): sub-key -> value
Dict(d) == [t |-> "dict", d |-> d]
\* the top-level JSON object, in insertion order: a sequence of <<key, value>>
Obj(items) == [t |-> "obj", items |-> items]

\* Python truth value of a value (the `and data[...]` tests)
Truthy(v) ==
    CASE v.t = "null" -> FALSE
      [] v.t = "bool" -> v.b
      [] v.t = "num"  -> v.n # 0
      [] v.t = "str"  -> v.s # ""
      [] v.t = "list" -> v.l # <<>>
      [] v.t = "dict" -> DOMAIN v.d # {}
      [] v.t = "obj"  -> v.items # <<>>

\* A key of the update is the concatenation of a prefix and a rest:
\* "REMOVE_colors" is <<"REMOVE_", "colors">>, "colors" is <<"", "colors">>.
Key(name) == <<"", name>>
RemoveKey(name) == <<"REMOVE_", name>>
\* key.startswith("REMOVE_")
StartsWithRemove(key) == key[1] = "REMOVE_"
\* key[7:]
FieldName(key) == key[2]

\* ------------------------------------------------------------------------
\* MemoryState
\* ------------------------------------------------------------------------
EmptyBudget == [min |-> Null, max |-> Null, around |-> Null]

\* MemoryState.__init__
MemoryState ==
    [colors |-> List(<<>>),
     flower_types |-> List(<<>>),
     occasions |-> List(<<>>),
     budget |-> EmptyBudget,
     effort_level |-> Null,
     season |-> Null,
     quantity |-> Null,
     product_type |-> Null,
     color_logic |-> Str("AND"),
     exclude_colors |-> List(<<>>),
     exclude_flower_types |-> List(<<>>),
     exclude_occasions |-> List(<<>>),
     exclude_effort_levels |-> List(<<>>),
     exclude_product_types |-> List(<<>>)]

\* `name in data`
HasKey(items, name) == \E i \in 1..Len(items) : items[i][1] = Key(name)
\* `data[name]`
GetKey(items, name) ==
    items[CHOOSE i \in 1..Len(items) : items[i][1] = Key(name)][2]

\* the branch `if field_name == "all"`: every attribute is assigned its
\* initial value
ClearAll_KeepsExcludes(mem) ==
    [mem EXCEPT !.colors = List(<<>>),
                !.flower_types = List(<<>>),
                !.occasions = List(<<>>),
                !.budget = EmptyBudget,
                !.effort_level = Null,
                !.season = Null,
                !.quantity = Null,
                !.product_type = Null,
                !.color_logic = Str("AND")]
ClearAll(mem) ==
    [mem EXCEPT !.colors = List(<<>>),
                !.flower_types = List(<<>>),
                !.occasions = List(<<>>),
                !.budget = EmptyBudget,
                !.effort_level = Null,
                !.season = Null,
                !.quantity = Null,
                !.product_type = Null,
                !.color_logic = Str("AND"),
                !.exclude_colors = List(<<>>),
                !.exclude_flower_types = List(<<>>),
                !.exclude_occasions = List(<<>>),
                !.exclude_effort_levels = List(<<>>),
                !.exclude_product_types = List(<<>>)]

\* the names that have an elif branch assigning [] ...
RemovableLists ==
    {"colors", "flower_types", "occasions", "exclude_colors",
     "exclude_flower_types", "exclude_occasions", "exclude_effort_levels",
     "exclude_product_types"}
\* ... and the names that have an elif branch assigning None
RemovableScalars_NoSeason == {"effort_level", "quantity", "product_type"}
RemovableScalars == {"effort_level", "season", "quantity", "product_type"}

\* the elif chain on field_name; a name without a branch changes nothing
ClearField_AlsoExclude(mem, field_name) ==
    CASE field_name = "colors" ->
           [mem EXCEPT !.colors = List(<<>>), !.exclude_colors = List(<<>>)]
      [] field_name \in RemovableLists \ {"colors"} ->
           [mem EXCEPT ![field_name] = List(<<>>)]
      [] field_name = "budget" -> [mem EXCEPT !.budget = EmptyBudget]
      [] field_name \in RemovableScalars -> [mem EXCEPT ![field_name] = Null]
      [] OTHER -> mem
ClearField(mem, field_name) ==
    CASE field_name \in RemovableLists -> [mem EXCEPT ![field_name] = List(<<>>)]
      [] field_name = "budget" -> [mem EXCEPT !.budget = EmptyBudget]
      [] field_name \in RemovableScalars -> [mem EXCEPT ![field_name] = Null]
      [] OTHER -> mem

\* One iteration of the loop of STEP 1.  The value of the key is not looked
\* at: any key that starts with "REMOVE_" is a directive.
RemoveField(mem, key) ==
    IF ~StartsWithRemove(key) THEN mem
    ELSE IF FieldName(key) = "all" THEN ClearAll(mem)
    ELSE ClearField(mem, FieldName(key))

\* STEP 1: `for key, value in data.items()`, in the order of the items
RECURSIVE RemoveLoop(_, _)
RemoveLoop(mem, items) ==
    IF items = <<>> THEN mem
    ELSE RemoveLoop(RemoveField(mem, Head(items)[1]), Tail(items))

\* `if name in data and data[name]: self.name = data[name]`
SetField_NoGuard(mem, items, name) ==
    IF HasKey(items, name)
    THEN [mem EXCEPT ![name] = GetKey(items, name)]
    ELSE mem
SetField_Append(mem, items, name) ==
    IF HasKey(items, name) /\ Truthy(GetKey(items, name))
    THEN IF mem[name].t = "list" /\ GetKey(items, name).t = "list"
         THEN [mem EXCEPT ![name] = List(mem[name].l \o GetKey(items, name).l)]
         ELSE [mem EXCEPT ![name] = GetKey(items, name)]
    ELSE mem
SetField(mem, items, name) ==
    IF HasKey(items, name) /\ Truthy(GetKey(items, name))
    THEN [mem EXCEPT ![name] = GetKey(items, name)]
    ELSE mem

\* self.budget.update(d) for a dict d: the sub-keys of d overwrite
BudgetUpdate(budget, d) ==
    [k \in DOMAIN budget \cup DOMAIN d |->
        IF k \in DOMAIN d THEN d[k] ELSE budget[k]]

\* the fields set before and after the budget in STEP 2 and STEP 3
FieldsBeforeBudget == <<"colors", "flower_types", "occasions">>
FieldsAfterBudget ==
    <<"effort_level", "season", "quantity", "product_type", "color_logic",
      "exclude_colors", "exclude_flower_types", "exclude_occasions",
      "exclude_effort_levels", "exclude_product_types">>

RECURSIVE SetFields(_, _, _)
SetFields(mem, items, names) ==
    IF names = <<>> THEN mem
    ELSE SetFields(SetField(mem, items, Head(names)), items, Tail(names))

\* `if "budget" in data and data["budget"]`
BudgetGiven(items) == HasKey(items, "budget") /\ Truthy(GetKey(items, "budget"))

\* MemoryState.update_from_dict(data): the memory it leaves, and whether it
\* raised.  data.items() raises on a value that is not a dict, before any
\* assignment; self.budget.update(x) raises on a true x that is not a dict,
\* after the removals and the three fields before it have been assigned.
update_from_dict_RemovalsLast(mem, data) ==
    IF data.t # "obj" THEN [mem |-> mem, raised |-> TRUE]
    ELSE IF BudgetGiven(data.items) /\ GetKey(data.items, "budget").t # "dict"
    THEN [mem |-> SetFields(mem, data.items, FieldsBeforeBudget), raised |-> TRUE]
    ELSE [mem |-> RemoveLoop(
                    SetFields(
                      SetFields(
                        IF BudgetGiven(data.items)
                        THEN [mem EXCEPT !.budget =
                                BudgetUpdate(mem.budget, GetKey(data.items, "budget").d)]
                        ELSE mem,
                        data.items, FieldsBeforeBudget),
                      data.items, FieldsAfterBudget),
                    data.items),
          raised |-> FALSE]
update_from_dict(mem, data) ==
    IF data.t # "obj" THEN [mem |-> mem, raised |-> TRUE]
    ELSE LET items == data.items
             m1 == RemoveLoop(mem, items)
             m2 == SetFields(m1, items, FieldsBeforeBudget)
         IN IF BudgetGiven(items) /\ GetKey(items, "budget").t # "dict"
            THEN [mem |-> m2, raised |-> TRUE]
            ELSE LET m3 == IF BudgetGiven(items)
                           THEN [m2 EXCEPT !.budget =
                                   BudgetUpdate(m2.budget, GetKey(items, "budget").d)]
                           ELSE m2
                 IN [mem |-> SetFields(m3, items, FieldsAfterBudget),
                     raised |-> FALSE]

\* ------------------------------------------------------------------------
\* parse_user_input
\* ------------------------------------------------------------------------
\* What the parser LLM does in one call: parser_llm.invoke raises (network
\* error, time-out), or answers with a text that json.loads rejects, or with
\* a text that json.loads turns into the value val.
LlmRaises == [kind |-> "raise"]
LlmText == [kind |-> "text"]
LlmJson(val) == [kind |-> "json", val |-> val]

\* parse_user_input: the dict it returns and whether it printed "Parser error"
parse_user_input_ReturnsNone(l) ==
    IF l.kind = "json"
    THEN [data |-> l.val, parser_error |-> FALSE]
    ELSE [data |-> Null, parser_error |-> TRUE]
parse_user_input(l) ==
    IF l.kind = "json"
    THEN [data |-> l.val, parser_error |-> FALSE]
    ELSE [data |-> Obj(<<>>), parser_error |-> TRUE]

\* ------------------------------------------------------------------------
\* Inputs of a turn
\* ------------------------------------------------------------------------
ListFields ==
    {"colors", "flower_types", "occasions", "exclude_colors",
     "exclude_flower_types", "exclude_occasions", "exclude_effort_levels",
     "exclude_product_types"}
ScalarFields == {"effort_level", "season", "quantity", "product_type"}
Fields == ListFields \cup ScalarFields \cup {"budget", "color_logic"}

\* non-empty values the extractor gives a field
FieldValues(name) ==
    CASE name \in {"colors", "exclude_colors"} ->
           {List(<<"red">>), List(<<"white", "pink">>)}
      [] name \in {"flower_types", "exclude_flower_types"} ->
           {List(<<"rose">>), List(<<"lily", "peony">>)}
      [] name \in {"occasions", "exclude_occasions"} ->
           {List(<<"wedding">>), List(<<"birthday">>)}
      [] name = "exclude_effort_levels" ->
           {List(<<"DIY From Scratch">>), List(<<"DIY In A Kit">>)}
      [] name = "exclude_product_types" ->
           {List(<<"centerpiece">>), List(<<"bouquet">>)}
      [] name = "effort_level" -> {Str("Ready To Go"), Str("DIY In A Kit")}
      [] name = "season" -> {Str("spring"), Str("May 15")}
      [] name = "quantity" -> {Str("100 stems"), Str("no number here")}
      [] name = "product_type" -> {Str("bouquet"), Str("centerpiece")}
      [] name = "color_logic" -> {Str("OR"), Str("AND")}
      [] name = "budget" ->
           {Dict([max |-> Num(100)]),
            Dict([min |-> Num(50), max |-> Num(150)]),
            Dict([around |-> Num(75)]),
            Dict([min |-> Num(50), max |-> Null, around |-> Null])}

\* an empty value of a field the extractor has nothing to say about
EmptyValue(name) ==
    CASE name \in ListFields -> List(<<>>)
      [] name \in ScalarFields -> Str("")
      [] name = "budget" -> Dict(<<>>)
      [] name = "color_logic" -> Null

\* values of the wrong type: a budget that is not a dict
MistypedBudgets == {Num(50), Str("cheap")}

\* one item of an update: an additive field with a non-empty value, with an
\* empty value, with a mistyped value; a removal directive
NonEmptyItems == UNION {{<<Key(name), v>> : v \in FieldValues(name)} : name \in Fields}
EmptyItems == {<<Key(name), EmptyValue(name)>> : name \in Fields}
MistypedItems == {<<Key("budget"), v>> : v \in MistypedBudgets}
\* directives for the fields, for everything, and for a name that is no field
RemoveNames == Fields \cup {"all", "notes"}
RemoveItems == {<<RemoveKey(name), Bool(TRUE)>> : name \in RemoveNames}
\* a directive whose value is not true
RemoveFalseItems ==
    {<<RemoveKey(name), Bool(FALSE)>> : name \in {"all", "season"}}
    \cup {<<RemoveKey("colors"), Null>>}

\* an additive item with a removal directive that reaches its field
\* (REMOVE_all or REMOVE_<field>), in both key orders
RemoveWith(item) ==
    UNION {{<<<<RemoveKey(name), Bool(TRUE)>>, item>>,
            <<item, <<RemoveKey(name), Bool(TRUE)>>>>} :
              name \in {"all", FieldName(item[1])}}

\* an additive item with a removal directive for another field, in both
\* key orders
RemoveOther(name, item) ==
    {<<<<RemoveKey(name), Bool(TRUE)>>, item>>,
     <<item, <<RemoveKey(name), Bool(TRUE)>>>>}

\* one non-empty item for each field
OneItemPerField ==
    {<<Key(name), CHOOSE v \in FieldValues(name) : TRUE>> : name \in Fields}

\* every field present with the same kind of empty value
AllEmpty(v) == [i \in 1..14 |->
    <<Key((FieldsBeforeBudget \o <<"budget">> \o FieldsAfterBudget)[i]), v>>]

\* The updates of the model: the empty one, the ones of one item, the ones
\* in which every field is empty, a removal directive with an additive item
\* it reaches (both key orders), two-field and three-field updates, and
\* updates in which a mistyped budget stands among other items.
Updates ==
    {<<>>}
    \cup {<<i>> : i \in NonEmptyItems \cup EmptyItems \cup MistypedItems
                        \cup RemoveItems \cup RemoveFalseItems}
    \cup {AllEmpty(v) : v \in {Null, List(<<>>), Str("")}}
    \cup UNION {RemoveWith(i) : i \in OneItemPerField \cup MistypedItems}
    \cup RemoveOther("colors", <<Key("season"), Str("spring")>>)
    \cup RemoveOther("color_logic", <<Key("colors"), List(<<"red">>)>>)
    \cup RemoveOther("season", <<Key("budget"), Dict([max |-> Num(100)])>>)
    \cup {<<<<Key("colors"), List(<<"red">>)>>, <<Key("budget"), b>>>> :
             b \in {Dict([max |-> Num(100)]), Dict(<<>>), Num(50)}}
    \cup {<<<<Key("budget"), b>>, <<Key("season"), Str("spring")>>,
            <<Key("exclude_colors"), List(<<"red">>)>>>> :
             b \in {Dict([min |-> Num(50), max |-> Num(150)]), Num(50)}}
    \cup {<<<<RemoveKey("season"), Bool(TRUE)>>,
            <<Key("occasions"), List(<<"wedding">>)>>,
            <<Key("budget"), b>>>> :
             b \in {Dict([around |-> Num(75)]), Str("cheap")}}
    \cup {<<<<Key("colors"), Null>>, <<Key("budget"), Dict(<<>>)>>,
            <<Key("season"), Str("")>>, <<Key("notes"), Str("hello")>>>>}

\* what json.loads returns when the text is JSON but not an object
NonObjects == {Null, Num(7), List(<<"red">>)}

\* the outcomes of the parser LLM call
LlmOutcomes ==
    {LlmRaises, LlmText}
    \cup {LlmJson(v) : v \in NonObjects}
    \cup {LlmJson(Obj(u)) : u \in Updates}

\* the outcomes of run_sql: it returns rows, or raises
SqlOutcomes == {"rows", "raise"}

\* ------------------------------------------------------------------------
\* Text
\* ------------------------------------------------------------------------
\* the characters of the strings of the model
Chars(s) ==
    CASE s = "red" -> <<"r", "e", "d">>
      [] s = "white" -> <<"w", "h", "i", "t", "e">>
      [] s = "pink" -> <<"p", "i", "n", "k">>
      [] s = "rose" -> <<"r", "o", "s", "e">>
      [] s = "lily" -> <<"l", "i", "l", "y">>
      [] s = "peony" -> <<"p", "e", "o", "n", "y">>
      [] s = "wedding" -> <<"w", "e", "d", "d", "i", "n", "g">>
      [] s = "birthday" -> <<"b", "i", "r", "t", "h", "d", "a", "y">>
      [] s = "DIY From Scratch" -> <<"D", "I", "Y", " ", "F", "r", "o", "m", " ", "S", "c", "r", "a", "t", "c", "h">>
      [] s = "DIY In A Kit" -> <<"D", "I", "Y", " ", "I", "n", " ", "A", " ", "K", "i", "t">>
      [] s = "Ready To Go" -> <<"R", "e", "a", "d", "y", " ", "T", "o", " ", "G", "o">>
      [] s = "centerpiece" -> <<"c", "e", "n", "t", "e", "r", "p", "i", "e", "c", "e">>
      [] s = "bouquet" -> <<"b", "o", "u", "q", "u", "e", "t">>
      [] s = "spring" -> <<"s", "p", "r", "i", "n", "g">>
      [] s = "May 15" -> <<"M", "a", "y", " ", "1", "5">>
      [] s = "100 stems" -> <<"1", "0", "0", " ", "s", "t", "e", "m", "s">>
      [] s = "no number here" -> <<"n", "o", " ", "n", "u", "m", "b", "e", "r", " ", "h", "e", "r", "e">>
      [] s = "OR" -> <<"O", "R">>
      [] s = "AND" -> <<"A", "N", "D">>
      [] s = "yellow" -> <<"y", "e", "l", "l", "o", "w">>
      [] s = "orange" -> <<"o", "r", "a", "n", "g", "e">>
      [] s = "purple" -> <<"p", "u", "r", "p", "l", "e">>
      [] s = "blue" -> <<"b", "l", "u", "e">>
      [] s = "green" -> <<"g", "r", "e", "e", "n">>
      [] s = "cool colors" -> <<"c", "o", "o", "l", " ", "c", "o", "l", "o", "r", "s">>
      [] s = "cool tones" -> <<"c", "o", "o", "l", " ", "t", "o", "n", "e", "s">>
      [] s = "warm colors" -> <<"w", "a", "r", "m", " ", "c", "o", "l", "o", "r", "s">>
      [] s = "warm tones" -> <<"w", "a", "r", "m", " ", "t", "o", "n", "e", "s">>
      [] s = "neutral colors" -> <<"n", "e", "u", "t", "r", "a", "l", " ", "c", "o", "l", "o", "r", "s">>
      [] s = "neutral tones" -> <<"n", "e", "u", "t", "r", "a", "l", " ", "t", "o", "n", "e", "s">>
      [] s = "summer" -> <<"s", "u", "m", "m", "e", "r">>
      [] s = "fall" -> <<"f", "a", "l", "l">>
      [] s = "autumn" -> <<"a", "u", "t", "u", "m", "n">>
      [] s = "winter" -> <<"w", "i", "n", "t", "e", "r">>
      [] s = "true red" -> <<"t", "r", "u", "e", " ", "r", "e", "d">>
      [] s = "burgundy" -> <<"b", "u", "r", "g", "u", "n", "d", "y">>
      [] s = "cranberry" -> <<"c", "r", "a", "n", "b", "e", "r", "r", "y">>
      [] s = "maroon" -> <<"m", "a", "r", "o", "o", "n">>
      [] s = "crimson" -> <<"c", "r", "i", "m", "s", "o", "n">>
      [] s = "light pink" -> <<"l", "i", "g", "h", "t", " ", "p", "i", "n", "k">>
      [] s = "hot pink" -> <<"h", "o", "t", " ", "p", "i", "n", "k">>
      [] s = "true pink" -> <<"t", "r", "u", "e", " ", "p", "i", "n", "k">>
      [] s = "blush" -> <<"b", "l", "u", "s", "h">>
      [] s = "fuchsia" -> <<"f", "u", "c", "h", "s", "i", "a">>
      [] s = "magenta" -> <<"m", "a", "g", "e", "n", "t", "a">>
      [] s = "coral" -> <<"c", "o", "r", "a", "l">>
      [] s = "ivory" -> <<"i", "v", "o", "r", "y">>
      [] s = "cream" -> <<"c", "r", "e", "a", "m">>
      [] s = "off-white" -> <<"o", "f", "f", "-", "w", "h", "i", "t", "e">>
      [] s = "golden" -> <<"g", "o", "l", "d", "e", "n">>
      [] s = "amber" -> <<"a", "m", "b", "e", "r">>
      [] s = "chartreuse" -> <<"c", "h", "a", "r", "t", "r", "e", "u", "s", "e">>
      [] s = "lemon" -> <<"l", "e", "m", "o", "n">>
      [] s = "peach" -> <<"p", "e", "a", "c", "h">>
      [] s = "sunset" -> <<"s", "u", "n", "s", "e", "t">>
      [] s = "terracotta" -> <<"t", "e", "r", "r", "a", "c", "o", "t", "t", "a">>
      [] s = "apricot" -> <<"a", "p", "r", "i", "c", "o", "t">>
      [] s = "lavender" -> <<"l", "a", "v", "e", "n", "d", "e", "r">>
      [] s = "pinky lavender" -> <<"p", "i", "n", "k", "y", " ", "l", "a", "v", "e", "n", "d", "e", "r">>
      [] s = "violet" -> <<"v", "i", "o", "l", "e", "t">>
      [] s = "plum" -> <<"p", "l", "u", "m">>
      [] s = "soft blue" -> <<"s", "o", "f", "t", " ", "b", "l", "u", "e">>
      [] s = "navy" -> <<"n", "a", "v", "y">>
      [] s = "light blue" -> <<"l", "i", "g", "h", "t", " ", "b", "l", "u", "e">>
      [] s = "sage" -> <<"s", "a", "g", "e">>
      [] s = "mint" -> <<"m", "i", "n", "t">>
      [] s = "lime" -> <<"l", "i", "m", "e">>
      [] s = "brown" -> <<"b", "r", "o", "w", "n">>
      [] s = "bronze" -> <<"b", "r", "o", "n", "z", "e">>
      [] s = "chocolate" -> <<"c", "h", "o", "c", "o", "l", "a", "t", "e">>
      [] s = "tan" -> <<"t", "a", "n">>
      [] s = "mixed" -> <<"m", "i", "x", "e", "d">>
      [] s = "farm mixes" -> <<"f", "a", "r", "m", " ", "m", "i", "x", "e", "s">>
      [] s = "rainbow" -> <<"r", "a", "i", "n", "b", "o", "w">>
      [] s = "multicolor" -> <<"m", "u", "l", "t", "i", "c", "o", "l", "o", "r">>
      [] s = "assorted" -> <<"a", "s", "s", "o", "r", "t", "e", "d">>
      [] s = "Red" -> <<"R", "e", "d">>
      [] s = "teal" -> <<"t", "e", "a", "l">>
      [] s = "Cool Colors" -> <<"C", "o", "o", "l", " ", "C", "o", "l", "o", "r", "s">>
      [] s = "red;white" -> <<"r", "e", "d", ";", "w", "h", "i", "t", "e">>
      [] s = "burgundy;ivory" -> <<"b", "u", "r", "g", "u", "n", "d", "y", ";", "i", "v", "o", "r", "y">>
      [] s = "teal;blue" -> <<"t", "e", "a", "l", ";", "b", "l", "u", "e">>
      [] s = "white;pink" -> <<"w", "h", "i", "t", "e", ";", "p", "i", "n", "k">>
      [] s = "p0" -> <<"p", "0">>
      [] s = "p1" -> <<"p", "1">>
      [] s = "p2" -> <<"p", "2">>
      [] s = "p3" -> <<"p", "3">>
      [] s = "p4" -> <<"p", "4">>
      [] s = "p5" -> <<"p", "5">>
      [] s = "p6" -> <<"p", "6">>
      [] s = "p7" -> <<"p", "7">>
      [] s = "p8" -> <<"p", "8">>
      [] s = "p9" -> <<"p", "9">>
      [] s = "p10" -> <<"p", "1", "0">>
      [] s = "p11" -> <<"p", "1", "1">>
      [] s = "burgundy;teal" -> <<"b", "u", "r", "g", "u", "n", "d", "y", ";", "t", "e", "a", "l">>
      [] s = "1/1" -> <<"1", "/", "1">>
      [] s = "2/20" -> <<"2", "/", "2", "0">>
      [] s = "5/31" -> <<"5", "/", "3", "1">>
      [] s = "6/1" -> <<"6", "/", "1">>
      [] s = "6/15" -> <<"6", "/", "1", "5">>
      [] s = "6/30" -> <<"6", "/", "3", "0">>
      [] s = "7/1" -> <<"7", "/", "1">>
      [] s = "11/15" -> <<"1", "1", "/", "1", "5">>
      [] s = "12/31" -> <<"1", "2", "/", "3", "1">>
      [] s = "june" -> <<"j", "u", "n", "e">>
      [] s = "2/30" -> <<"2", "/", "3", "0">>
      [] s = "january" -> <<"j", "a", "n", "u", "a", "r", "y">>
      [] s = "jan" -> <<"j", "a", "n">>
      [] s = "february" -> <<"f", "e", "b", "r", "u", "a", "r", "y">>
      [] s = "feb" -> <<"f", "e", "b">>
      [] s = "march" -> <<"m", "a", "r", "c", "h">>
      [] s = "mar" -> <<"m", "a", "r">>
      [] s = "april" -> <<"a", "p", "r", "i", "l">>
      [] s = "apr" -> <<"a", "p", "r">>
      [] s = "may" -> <<"m", "a", "y">>
      [] s = "jun" -> <<"j", "u", "n">>
      [] s = "july" -> <<"j", "u", "l", "y">>
      [] s = "jul" -> <<"j", "u", "l">>
      [] s = "august" -> <<"a", "u", "g", "u", "s", "t">>
      [] s = "aug" -> <<"a", "u", "g">>
      [] s = "september" -> <<"s", "e", "p", "t", "e", "m", "b", "e", "r">>
      [] s = "sep" -> <<"s", "e", "p">>
      [] s = "sept" -> <<"s", "e", "p", "t">>
      [] s = "october" -> <<"o", "c", "t", "o", "b", "e", "r">>
      [] s = "oct" -> <<"o", "c", "t">>
      [] s = "november" -> <<"n", "o", "v", "e", "m", "b", "e", "r">>
      [] s = "nov" -> <<"n", "o", "v">>
      [] s = "december" -> <<"d", "e", "c", "e", "m", "b", "e", "r">>
      [] s = "dec" -> <<"d", "e", "c">>
      [] s = "" -> <<>>
      [] s = "blush pink" -> <<"b", "l", "u", "s", "h", " ", "p", "i", "n", "k">>
      [] s = "bridal shower" -> <<"b", "r", "i", "d", "a", "l", " ", "s", "h", "o", "w", "e", "r">>
      [] s = "mother's day" -> <<"m", "o", "t", "h", "e", "r", "'", "s", " ", "d", "a", "y">>
      [] s = "thanksgiving" -> <<"t", "h", "a", "n", "k", "s", "g", "i", "v", "i", "n", "g">>
      [] s = "anniversary" -> <<"a", "n", "n", "i", "v", "e", "r", "s", "a", "r", "y">>
      [] s = "baby shower" -> <<"b", "a", "b", "y", " ", "s", "h", "o", "w", "e", "r">>
      [] s = "valentine's" -> <<"v", "a", "l", "e", "n", "t", "i", "n", "e", "'", "s">>
      [] s = "celebration" -> <<"c", "e", "l", "e", "b", "r", "a", "t", "i", "o", "n">>
      [] s = "graduation" -> <<"g", "r", "a", "d", "u", "a", "t", "i", "o", "n">>
      [] s = "homecoming" -> <<"h", "o", "m", "e", "c", "o", "m", "i", "n", "g">>
      [] s = "valentine" -> <<"v", "a", "l", "e", "n", "t", "i", "n", "e">>
      [] s = "christmas" -> <<"c", "h", "r", "i", "s", "t", "m", "a", "s">>
      [] s = "sympathy" -> <<"s", "y", "m", "p", "a", "t", "h", "y">>
      [] s = "funeral" -> <<"f", "u", "n", "e", "r", "a", "l">>
      [] s = "holiday" -> <<"h", "o", "l", "i", "d", "a", "y">>
      [] s = "easter" -> <<"e", "a", "s", "t", "e", "r">>
      [] s = "party" -> <<"p", "a", "r", "t", "y">>
      [] s = "prom" -> <<"p", "r", "o", "m">>
      [] s = "diy" -> <<"d", "i", "y">>
      [] s = "do it myself" -> <<"d", "o", " ", "i", "t", " ", "m", "y", "s", "e", "l", "f">>
      [] s = "make myself" -> <<"m", "a", "k", "e", " ", "m", "y", "s", "e", "l", "f">>
      [] s = "assemble" -> <<"a", "s", "s", "e", "m", "b", "l", "e">>
      [] s = "bouquets" -> <<"b", "o", "u", "q", "u", "e", "t", "s">>
      [] s = "centerpieces" -> <<"c", "e", "n", "t", "e", "r", "p", "i", "e", "c", "e", "s">>
      [] s = "focal" -> <<"f", "o", "c", "a", "l">>
      [] s = "statement" -> <<"s", "t", "a", "t", "e", "m", "e", "n", "t">>
      [] s = "arrangement" -> <<"a", "r", "r", "a", "n", "g", "e", "m", "e", "n", "t">>
      [] s = "arrangements" -> <<"a", "r", "r", "a", "n", "g", "e", "m", "e", "n", "t", "s">>
      [] s = "premade" -> <<"p", "r", "e", "m", "a", "d", "e">>
      [] s = "ready" -> <<"r", "e", "a", "d", "y">>
      [] s = "diy flower kits" -> <<"d", "i", "y", " ", "f", "l", "o", "w", "e", "r", " ", "k", "i", "t", "s">>
      [] s = "focal flowers" -> <<"f", "o", "c", "a", "l", " ", "f", "l", "o", "w", "e", "r", "s">>
      [] s = "ready-made" -> <<"r", "e", "a", "d", "y", "-", "m", "a", "d", "e">>
      [] s = "custom" -> <<"c", "u", "s", "t", "o", "m">>
      [] s = "no date" -> <<"n", "o", " ", "d", "a", "t", "e">>
      [] s = "don't know" -> <<"d", "o", "n", "'", "t", " ", "k", "n", "o", "w">>
      [] s = "not sure" -> <<"n", "o", "t", " ", "s", "u", "r", "e">>
      [] s = "skip" -> <<"s", "k", "i", "p">>
      [] s = "no theme" -> <<"n", "o", " ", "t", "h", "e", "m", "e">>
      [] s = "no specific" -> <<"n", "o", " ", "s", "p", "e", "c", "i", "f", "i", "c">>
      [] s = "hi" -> <<"h", "i">>
      [] s = "a wedding" -> <<"a", " ", "w", "e", "d", "d", "i", "n", "g">>
      [] s = "no date yet" -> <<"n", "o", " ", "d", "a", "t", "e", " ", "y", "e", "t">>
      [] s = "09/21/2025" -> <<"0", "9", "/", "2", "1", "/", "2", "0", "2", "5">>
      [] s = "rustic" -> <<"r", "u", "s", "t", "i", "c">>
      [] s = "red roses" -> <<"r", "e", "d", " ", "r", "o", "s", "e", "s">>
      [] s = "no preference" -> <<"n", "o", " ", "p", "r", "e", "f", "e", "r", "e", "n", "c", "e">>
      [] s = "none" -> <<"n", "o", "n", "e">>
      [] s = "anything" -> <<"a", "n", "y", "t", "h", "i", "n", "g">>
      [] s = "108" -> <<"1", "0", "8">>
      [] s = "109" -> <<"1", "0", "9">>
      [] s = "110" -> <<"1", "1", "0">>
      [] s = "111" -> <<"1", "1", "1">>
      [] s = "112" -> <<"1", "1", "2">>
      [] s = "113" -> <<"1", "1", "3">>
      [] s = "114" -> <<"1", "1", "4">>
      [] s = "115" -> <<"1", "1", "5">>
      [] s = "116" -> <<"1", "1", "6">>
      [] s = "117" -> <<"1", "1", "7">>
      [] s = "118" -> <<"1", "1", "8">>
      [] s = "119" -> <<"1", "1", "9">>
      [] s = "120" -> <<"1", "2", "0">>
      [] s = "121" -> <<"1", "2", "1">>
      [] s = "122" -> <<"1", "2", "2">>
      [] s = "123" -> <<"1", "2", "3">>
      [] s = "124" -> <<"1", "2", "4">>
      [] s = "125" -> <<"1", "2", "5">>
      [] s = "126" -> <<"1", "2", "6">>
      [] s = "127" -> <<"1", "2", "7">>
      [] s = "128" -> <<"1", "2", "8">>
      [] s = "129" -> <<"1", "2", "9">>
      [] s = "130" -> <<"1", "3", "0">>
      [] s = "131" -> <<"1", "3", "1">>
      [] s = "142" -> <<"1", "4", "2">>
      [] s = "143" -> <<"1", "4", "3">>
      [] s = "211" -> <<"2", "1", "1">>
      [] s = "212" -> <<"2", "1", "2">>
      [] s = "213" -> <<"2", "1", "3">>
      [] s = "214" -> <<"2", "1", "4">>
      [] s = "215" -> <<"2", "1", "5">>
      [] s = "216" -> <<"2", "1", "6">>
      [] s = "217" -> <<"2", "1", "7">>
      [] s = "218" -> <<"2", "1", "8">>
      [] s = "219" -> <<"2", "1", "9">>
      [] s = "221" -> <<"2", "2", "1">>
      [] s = "222" -> <<"2", "2", "2">>
      [] s = "223" -> <<"2", "2", "3">>
      [] s = "224" -> <<"2", "2", "4">>
      [] s = "225" -> <<"2", "2", "5">>
      [] s = "226" -> <<"2", "2", "6">>
      [] s = "227" -> <<"2", "2", "7">>
      [] s = "228" -> <<"2", "2", "8">>
      [] s = "229" -> <<"2", "2", "9">>
      [] s = "231" -> <<"2", "3", "1">>
      [] s = "232" -> <<"2", "3", "2">>
      [] s = "233" -> <<"2", "3", "3">>
      [] s = "234" -> <<"2", "3", "4">>
      [] s = "235" -> <<"2", "3", "5">>
      [] s = "236" -> <<"2", "3", "6">>
      [] s = "237" -> <<"2", "3", "7">>
      [] s = "238" -> <<"2", "3", "8">>
      [] s = "239" -> <<"2", "3", "9">>
      [] s = "241" -> <<"2", "4", "1">>
      [] s = "242" -> <<"2", "4", "2">>
      [] s = "243" -> <<"2", "4", "3">>
      [] s = "244" -> <<"2", "4", "4">>
      [] s = "245" -> <<"2", "4", "5">>
      [] s = "246" -> <<"2", "4", "6">>
      [] s = "247" -> <<"2", "4", "7">>
      [] s = "248" -> <<"2", "4", "8">>
      [] s = "249" -> <<"2", "4", "9">>
      [] s = "251" -> <<"2", "5", "1">>
      [] s = "252" -> <<"2", "5", "2">>
      [] s = "253" -> <<"2", "5", "3">>
      [] s = "254" -> <<"2", "5", "4">>
      [] s = "255" -> <<"2", "5", "5">>
      [] s = "256" -> <<"2", "5", "6">>
      [] s = "257" -> <<"2", "5", "7">>
      [] s = "258" -> <<"2", "5", "8">>
      [] s = "259" -> <<"2", "5", "9">>
      [] s = "261" -> <<"2", "6", "1">>
      [] s = "262" -> <<"2", "6", "2">>
      [] s = "263" -> <<"2", "6", "3">>
      [] s = "264" -> <<"2", "6", "4">>
      [] s = "265" -> <<"2", "6", "5">>
      [] s = "266" -> <<"2", "6", "6">>
      [] s = "267" -> <<"2", "6", "7">>
      [] s = "268" -> <<"2", "6", "8">>
      [] s = "269" -> <<"2", "6", "9">>
      [] s = "271" -> <<"2", "7", "1">>
      [] s = "272" -> <<"2", "7", "2">>
      [] s = "273" -> <<"2", "7", "3">>
      [] s = "274" -> <<"2", "7", "4">>
      [] s = "275" -> <<"2", "7", "5">>
      [] s = "276" -> <<"2", "7", "6">>
      [] s = "277" -> <<"2", "7", "7">>
      [] s = "278" -> <<"2", "7", "8">>
      [] s = "279" -> <<"2", "7", "9">>
      [] s = "281" -> <<"2", "8", "1">>
      [] s = "282" -> <<"2", "8", "2">>
      [] s = "283" -> <<"2", "8", "3">>
      [] s = "284" -> <<"2", "8", "4">>
      [] s = "285" -> <<"2", "8", "5">>
      [] s = "286" -> <<"2", "8", "6">>
      [] s = "287" -> <<"2", "8", "7">>
      [] s = "288" -> <<"2", "8", "8">>
      [] s = "289" -> <<"2", "8", "9">>
      [] s = "291" -> <<"2", "9", "1">>
      [] s = "292" -> <<"2", "9", "2">>
      [] s = "293" -> <<"2", "9", "3">>
      [] s = "294" -> <<"2", "9", "4">>
      [] s = "295" -> <<"2", "9", "5">>
      [] s = "296" -> <<"2", "9", "6">>
      [] s = "297" -> <<"2", "9", "7">>
      [] s = "298" -> <<"2", "9", "8">>
      [] s = "299" -> <<"2", "9", "9">>
      [] s = "301" -> <<"3", "0", "1">>
      [] s = "302" -> <<"3", "0", "2">>
      [] s = "303" -> <<"3", "0", "3">>
      [] s = "304" -> <<"3", "0", "4">>
      [] s = "305" -> <<"3", "0", "5">>
      [] s = "306" -> <<"3", "0", "6">>
      [] s = "307" -> <<"3", "0", "7">>
      [] s = "308" -> <<"3", "0", "8">>
      [] s = "309" -> <<"3", "0", "9">>
      [] s = "310" -> <<"3", "1", "0">>
      [] s = "311" -> <<"3", "1", "1">>
      [] s = "406" -> <<"4", "0", "6">>
      [] s = "407" -> <<"4", "0", "7">>
      [] s = "408" -> <<"4", "0", "8">>
      [] s = "411" -> <<"4", "1", "1">>
      [] s = "412" -> <<"4", "1", "2">>
      [] s = "413" -> <<"4", "1", "3">>
      [] s = "416" -> <<"4", "1", "6">>
      [] s = "417" -> <<"4", "1", "7">>
      [] s = "418" -> <<"4", "1", "8">>
      [] s = "426" -> <<"4", "2", "6">>
      [] s = "427" -> <<"4", "2", "7">>
      [] s = "428" -> <<"4", "2", "8">>
      [] s = "431" -> <<"4", "3", "1">>
      [] s = "432" -> <<"4", "3", "2">>
      [] s = "433" -> <<"4", "3", "3">>
      [] s = "436" -> <<"4", "3", "6">>
      [] s = "437" -> <<"4", "3", "7">>
      [] s = "438" -> <<"4", "3", "8">>
      [] s = "February 30" -> <<"F", "e", "b", "r", "u", "a", "r", "y", " ", "3", "0">>
      [] s = "February 29" -> <<"F", "e", "b", "r", "u", "a", "r", "y", " ", "2", "9">>
      [] s = "April 31" -> <<"A", "p", "r", "i", "l", " ", "3", "1">>
      [] s = "13/1" -> <<"1", "3", "/", "1">>
      [] s = "2/29" -> <<"2", "/", "2", "9">>
      [] s = "Garden Rose" -> <<"G", "a", "r", "d", "e", "n", " ", "R", "o", "s", "e">>
      [] s = "tulip" -> <<"t", "u", "l", "i", "p">>
      [] s = "Rose" -> <<"R", "o", "s", "e">>
      [] s = "Lily Mix" -> <<"L", "i", "l", "y", " ", "M", "i", "x">>
      [] s = "513" -> <<"5", "1", "3">>
      [] s = "514" -> <<"5", "1", "4">>
      [] s = "515" -> <<"5", "1", "5">>
      [] s = "516" -> <<"5", "1", "6">>
      [] s = "517" -> <<"5", "1", "7">>
      [] s = "518" -> <<"5", "1", "8">>
      [] s = "519" -> <<"5", "1", "9">>
      [] s = "520" -> <<"5", "2", "0">>
      [] s = "521" -> <<"5", "2", "1">>
      [] s = "522" -> <<"5", "2", "2">>
      [] s = "523" -> <<"5", "2", "3">>
      [] s = "524" -> <<"5", "2", "4">>
      [] s = "525" -> <<"5", "2", "5">>
      [] s = "526" -> <<"5", "2", "6">>
      [] s = "527" -> <<"5", "2", "7">>
      [] s = "528" -> <<"5", "2", "8">>
      [] s = "529" -> <<"5", "2", "9">>
      [] s = "530" -> <<"5", "3", "0">>
      [] s = "531" -> <<"5", "3", "1">>
      [] s = "532" -> <<"5", "3", "2">>
      [] s = "533" -> <<"5", "3", "3">>
      [] s = "534" -> <<"5", "3", "4">>
      [] s = "535" -> <<"5", "3", "5">>
      [] s = "536" -> <<"5", "3", "6">>
      [] s = "537" -> <<"5", "3", "7">>
      [] s = "538" -> <<"5", "3", "8">>
      [] s = "539" -> <<"5", "3", "9">>
      [] s = "540" -> <<"5", "4", "0">>
      [] s = "541" -> <<"5", "4", "1">>
      [] s = "542" -> <<"5", "4", "2">>
      [] s = "YR" -> <<"Y", "R">>
      [] s = " yr " -> <<" ", "y", "r", " ">>
      [] s = "Jun 1 - Jun 30" -> <<"J", "u", "n", " ", "1", " ", "-", " ", "J", "u", "n", " ", "3", "0">>
      [] s = "Nov 15 - Feb 20" -> <<"N", "o", "v", " ", "1", "5", " ", "-", " ", "F", "e", "b", " ", "2", "0">>
      [] s = "Dec 31 - Jan 1" -> <<"D", "e", "c", " ", "3", "1", " ", "-", " ", "J", "a", "n", " ", "1">>
      [] s = "Nov 15 - Dec 31; Jan 1 - Feb 20" -> <<"N", "o", "v", " ", "1", "5", " ", "-", " ", "D", "e", "c", " ", "3", "1", ";", " ", "J", "a", "n", " ", "1", " ", "-", " ", "F", "e", "b", " ", "2", "0">>
      [] s = "Mar 1 - May 31; Sep 1 - Nov 15; Dec 1 - Dec 31" -> <<"M", "a", "r", " ", "1", " ", "-", " ", "M", "a", "y", " ", "3", "1", ";", " ", "S", "e", "p", " ", "1", " ", "-", " ", "N", "o", "v", " ", "1", "5", ";", " ", "D", "e", "c", " ", "1", " ", "-", " ", "D", "e", "c", " ", "3", "1">>
      [] s = "January 1 - June 15" -> <<"J", "a", "n", "u", "a", "r", "y", " ", "1", " ", "-", " ", "J", "u", "n", "e", " ", "1", "5">>
      [] s = "Jun 1 - Jun 30; Jul 1 - Jul 1; Nov 15 - Dec 31; Jan 1 - Feb 20" -> <<"J", "u", "n", " ", "1", " ", "-", " ", "J", "u", "n", " ", "3", "0", ";", " ", "J", "u", "l", " ", "1", " ", "-", " ", "J", "u", "l", " ", "1", ";", " ", "N", "o", "v", " ", "1", "5", " ", "-", " ", "D", "e", "c", " ", "3", "1", ";", " ", "J", "a", "n", " ", "1", " ", "-", " ", "F", "e", "b", " ", "2", "0">>
      [] s = "Jun 1-Jun 30" -> <<"J", "u", "n", " ", "1", "-", "J", "u", "n", " ", "3", "0">>
      [] s = "bad; Jun 1 - Jun 30" -> <<"b", "a", "d", ";", " ", "J", "u", "n", " ", "1", " ", "-", " ", "J", "u", "n", " ", "3", "0">>
      [] s = "Foo 1 - Jun 30" -> <<"F", "o", "o", " ", "1", " ", "-", " ", "J", "u", "n", " ", "3", "0">>
      [] s = "Jun - Jun 30" -> <<"J", "u", "n", " ", "-", " ", "J", "u", "n", " ", "3", "0">>
      [] s = "Jun x - Jun 30" -> <<"J", "u", "n", " ", "x", " ", "-", " ", "J", "u", "n", " ", "3", "0">>
      [] s = "Jun 1 - Jun 15 - Jun 30" -> <<"J", "u", "n", " ", "1", " ", "-", " ", "J", "u", "n", " ", "1", "5", " ", "-", " ", "J", "u", "n", " ", "3", "0">>

\* str.lower() / SQL LOWER()
LowerChar(ch) ==
    CASE ch = "A" -> "a" [] ch = "B" -> "b" [] ch = "C" -> "c" [] ch = "D" -> "d"
      [] ch = "E" -> "e" [] ch = "F" -> "f" [] ch = "G" -> "g" [] ch = "H" -> "h"
      [] ch = "I" -> "i" [] ch = "J" -> "j" [] ch = "K" -> "k" [] ch = "L" -> "l"
      [] ch = "M" -> "m" [] ch = "N" -> "n" [] ch = "O" -> "o" [] ch = "P" -> "p"
      [] ch = "Q" -> "q" [] ch = "R" -> "r" [] ch = "S" -> "s" [] ch = "T" -> "t"
      [] ch = "U" -> "u" [] ch = "V" -> "v" [] ch = "W" -> "w" [] ch = "X" -> "x"
      [] ch = "Y" -> "y" [] ch = "Z" -> "z" [] OTHER -> ch
lower(text) == [i \in 1..Len(text) |-> LowerChar(text[i])]

\* Python `needle in hay`, SQL hay LIKE '%needle%' (no wildcard in needle)
Contains(hay, needle) ==
    \E i \in 0..(Len(hay) - Len(needle)) :
        \A j \in 1..Len(needle) : hay[i + j] = needle[j]

\* a dict keyed by strings: its keys as characters
Keyed(table) == [i \in 1..Len(table) |-> <<Chars(table[i][1]), table[i][2]>>]
\* table.get(text, default)
Get(table, text, default) ==
    IF \A i \in 1..Len(table) : table[i][1] # text THEN default
    ELSE table[CHOOSE i \in 1..Len(table) : table[i][1] = text][2]

\* ------------------------------------------------------------------------
\* SQL: three-valued logic over the columns of a row of table flowers
\* ------------------------------------------------------------------------
\* the truth values of SQL; WHERE keeps the rows whose condition is "TRUE"
SqlBool(b) == IF b THEN "TRUE" ELSE "FALSE"
SqlAnd(a, b) ==
    IF a = "FALSE" \/ b = "FALSE" THEN "FALSE"
    ELSE IF a = "NULL" \/ b = "NULL" THEN "NULL" ELSE "TRUE"
SqlOr(a, b) ==
    IF a = "TRUE" \/ b = "TRUE" THEN "TRUE"
    ELSE IF a = "NULL" \/ b = "NULL" THEN "NULL" ELSE "FALSE"
\* a AND b AND ... / a OR b OR ... over the truth values of the operands
SqlAndAll(vals) ==
    IF "FALSE" \in vals THEN "FALSE" ELSE IF "NULL" \in vals THEN "NULL" ELSE "TRUE"
SqlOrAll(vals) ==
    IF "TRUE" \in vals THEN "TRUE" ELSE IF "NULL" \in vals THEN "NULL" ELSE "FALSE"
\* the truth values of the tests of a sequence
Vals(tests, Test(_)) == {Test(tests[i]) : i \in 1..Len(tests)}

\* col = true / col = false on a boolean column
SqlEqBool(col, b) == IF col = Null THEN "NULL" ELSE SqlBool(col.b = b)
\* col IS NOT NULL
SqlIsNotNull(col) == SqlBool(col # Null)
\* LOWER(col) LIKE '%pat%' / LOWER(col) NOT LIKE '%pat%'
SqlLike(col, pat) ==
    IF col = Null THEN "NULL" ELSE SqlBool(Contains(lower(Chars(col.s)), pat))
SqlNotLike(col, pat) ==
    IF col = Null THEN "NULL" ELSE SqlBool(~Contains(lower(Chars(col.s)), pat))
\* comparisons of a numeric column with a number
SqlLt(col, n) == IF col = Null THEN "NULL" ELSE SqlBool(col.n < n)
SqlLe(col, n) == IF col = Null THEN "NULL" ELSE SqlBool(col.n <= n)
SqlGt(col, n) == IF col = Null THEN "NULL" ELSE SqlBool(col.n > n)
SqlGe(col, n) == IF col = Null THEN "NULL" ELSE SqlBool(col.n >= n)
SqlEq(col, n) == IF col = Null THEN "NULL" ELSE SqlBool(col.n = n)

\* ------------------------------------------------------------------------
\* load_mappings: COLOR_MAPPING
\* ------------------------------------------------------------------------
\* data/color_mapping.json as clean_data.py writes it: the categories in
\* the order of the file, each with its variants (as characters)
color_mapping_json ==
    <<<<"red", {"red", "true red", "burgundy",
          "cranberry", "maroon", "crimson"}>>,
      <<"pink", {"pink", "light pink",
          "hot pink", "true pink", "blush",
          "fuchsia", "magenta", "coral"}>>,
      <<"white", {"white", "ivory", "cream",
          "off-white"}>>,
      <<"yellow", {"yellow", "golden", "amber",
          "chartreuse", "lemon"}>>,
      <<"orange", {"orange", "peach", "sunset",
          "terracotta", "apricot"}>>,
      <<"purple", {"purple", "lavender",
          "pinky lavender", "violet", "plum"}>>,
      <<"blue", {"blue", "soft blue", "navy",
          "light blue"}>>,
      <<"green", {"green", "sage", "mint",
          "lime"}>>,
      <<"brown", {"brown", "bronze", "chocolate",
          "tan"}>>,
      <<"mixed", {"farm mixes", "rainbow",
          "multicolor", "assorted"}>>>>
color_categories ==
    [i \in 1..Len(color_mapping_json) |->
        <<Chars(color_mapping_json[i][1]),
          {Chars(variant) : variant \in color_mapping_json[i][2]}>>]

\* COLOR_MAPPING after import: the content of data/color_mapping.json, or
\* {} when the file could not be read
ColorMappings == {"color_mapping.json", "{}"}
\* COLOR_MAPPING["color_categories"].items(), none when COLOR_MAPPING is {}
Categories(mapping) ==
    IF mapping = "color_mapping.json" THEN color_categories ELSE <<>>

\* ------------------------------------------------------------------------
\* build_sql_from_memory: colors
\* ------------------------------------------------------------------------
\* the colors with a boolean column has_<color>
BasicColors ==
    <<"red", "pink", "white", "yellow", "orange", "purple", "blue", "green">>
BasicColorChars == [i \in 1..Len(BasicColors) |-> Chars(BasicColors[i])]
IsBasicColor(text) == \E i \in 1..Len(BasicColors) : BasicColorChars[i] = text
\* the column has_<color> of a basic color
FlagColumn(text) ==
    <<"has_red", "has_pink", "has_white", "has_yellow", "has_orange",
      "has_purple", "has_blue", "has_green">>[
        CHOOSE i \in 1..Len(BasicColors) : BasicColorChars[i] = text]

\* the color phrases: the name holds "<family> colors" or "<family> tones"
FamilyPhrases ==
    [family \in {"cool", "warm", "neutral"} |->
        {Chars(phrase) :
            phrase \in CASE family = "cool" -> {"cool colors", "cool tones"}
                         [] family = "warm" -> {"warm colors", "warm tones"}
                         [] family = "neutral" -> {"neutral colors", "neutral tones"}}]
IsFamily(color_lower, family) ==
    \E phrase \in FamilyPhrases[family] : Contains(color_lower, phrase)
FamilyColumns(family) ==
    CASE family = "cool" -> <<"has_blue", "has_purple", "has_green">>
      [] family = "warm" -> <<"has_red", "has_orange", "has_yellow">>
      [] family = "neutral" -> <<"has_white", "has_pink">>

\* the first category of the mapping that has the name as a variant or is
\* the name: its index, 0 when there is none
FoundInMapping(color_lower, categories) ==
    LET hits == {i \in 1..Len(categories) :
                   \/ color_lower \in categories[i][2]
                   \/ color_lower = categories[i][1]}
    IN IF hits = {} THEN 0 ELSE CHOOSE i \in hits : \A j \in hits : i <= j

\* The tests one entry of memory.colors appends to color_conditions: none
\* or one. A test is
\*   [kind |-> "any_true", cols]    (c1 = true OR c2 = true OR ...)
\*   [kind |-> "all_false", cols]   (c1 = false AND c2 = false AND ...)
\*   [kind |-> "like", pat]         LOWER(colors_raw) LIKE '%pat%'
\*   [kind |-> "not_like", pat]     LOWER(colors_raw) NOT LIKE '%pat%'
AnyTrue(cols) == [kind |-> "any_true", cols |-> cols]
AllFalse(cols) == [kind |-> "all_false", cols |-> cols]
LikeColorsRaw(pat) == [kind |-> "like", pat |-> pat]
NotLikeColorsRaw(pat) == [kind |-> "not_like", pat |-> pat]

\* ... when the name is no phrase and no basic color: found_in_mapping
MappedTests(color_lower, categories, found) ==
    IF found # 0
    THEN \* a test only when the category has a column
         IF IsBasicColor(categories[found][1])
         THEN <<AnyTrue(<<FlagColumn(categories[found][1])>>)>>
         ELSE <<>>
    ELSE <<LikeColorsRaw(color_lower)>>
ColorTests(color_lower, categories) ==
    IF IsFamily(color_lower, "cool") THEN <<AnyTrue(FamilyColumns("cool"))>>
    ELSE IF IsFamily(color_lower, "warm") THEN <<AnyTrue(FamilyColumns("warm"))>>
    ELSE IF IsFamily(color_lower, "neutral") THEN <<AnyTrue(FamilyColumns("neutral"))>>
    ELSE IF IsBasicColor(color_lower)
    THEN <<AnyTrue(<<FlagColumn(color_lower)>>)>>
    ELSE MappedTests(color_lower, categories, FoundInMapping(color_lower, categories))
color_condition(color, mapping) == ColorTests(lower(Chars(color)), Categories(mapping))

\* the test one entry of memory.exclude_colors appends
ExcludeTest(color_lower) ==
    IF IsFamily(color_lower, "cool") THEN AllFalse(FamilyColumns("cool"))
    ELSE IF IsFamily(color_lower, "warm") THEN AllFalse(FamilyColumns("warm"))
    ELSE IF IsFamily(color_lower, "neutral") THEN AllFalse(FamilyColumns("neutral"))
    ELSE IF IsBasicColor(color_lower)
    THEN AllFalse(<<FlagColumn(color_lower)>>)
    ELSE NotLikeColorsRaw(color_lower)
exclude_color_condition(color) == ExcludeTest(lower(Chars(color)))

\* the truth value of a color test on a row
ColorTest(test, row) ==
    CASE test.kind = "any_true" ->
           SqlOrAll({SqlEqBool(row[test.cols[i]], TRUE) : i \in 1..Len(test.cols)})
      [] test.kind = "all_false" ->
           SqlAndAll({SqlEqBool(row[test.cols[i]], FALSE) : i \in 1..Len(test.cols)})
      [] test.kind = "like" -> SqlLike(row.colors_raw, test.pat)
      [] test.kind = "not_like" -> SqlNotLike(row.colors_raw, test.pat)

\* color_conditions: the tests of the entries of memory.colors, in order
RECURSIVE color_conditions(_, _)
color_conditions(colors, mapping) ==
    IF colors = <<>> THEN <<>>
    ELSE color_condition(Head(colors), mapping) \o color_conditions(Tail(colors), mapping)

exclude_color_conditions(colors) ==
    [i \in 1..Len(colors) |-> exclude_color_condition(colors[i])]

\* ------------------------------------------------------------------------
\* parse_season_to_date
\* ------------------------------------------------------------------------
IsDigit(ch) == ch \in {"0", "1", "2", "3", "4", "5", "6", "7", "8", "9"}
IsSpace(ch) == ch = " "
\* \w on lower-case text
IsWord(ch) ==
    \/ IsDigit(ch)
    \/ ch \in {"a", "b", "c", "d", "e", "f", "g", "h", "i", "j", "k", "l", "m",
               "n", "o", "p", "q", "r", "s", "t", "u", "v", "w", "x", "y", "z", "_"}
DigitVal(ch) ==
    CASE ch = "0" -> 0 [] ch = "1" -> 1 [] ch = "2" -> 2 [] ch = "3" -> 3
      [] ch = "4" -> 4 [] ch = "5" -> 5 [] ch = "6" -> 6 [] ch = "7" -> 7
      [] ch = "8" -> 8 [] ch = "9" -> 9
\* int() of one or two digits
ToInt(digits) ==
    IF Len(digits) = 1 THEN DigitVal(digits[1])
    ELSE 10 * DigitVal(digits[1]) + DigitVal(digits[2])

\* str.strip()
strip(text) ==
    IF \A i \in 1..Len(text) : IsSpace(text[i]) THEN <<>>
    ELSE SubSeq(text,
                CHOOSE first \in 1..Len(text) :
                    ~IsSpace(text[first]) /\ \A j \in 1..(first - 1) : IsSpace(text[j]),
                CHOOSE last \in 1..Len(text) :
                    ~IsSpace(text[last]) /\ \A j \in (last + 1)..Len(text) : IsSpace(text[j]))

\* the end of the longest run of characters of a class that starts at i
RunEnd(text, i, InClass(_)) ==
    CHOOSE e \in i..Len(text) :
        /\ \A k \in i..e : InClass(text[k])
        /\ e = Len(text) \/ ~InClass(text[e + 1])

\* (\d{1,2}) at i: the one or two digits it takes when nothing must follow
Digits12(text, i) ==
    IF i + 1 <= Len(text) /\ IsDigit(text[i + 1])
    THEN SubSeq(text, i, i + 1) ELSE SubSeq(text, i, i)

\* is_valid_date
days_in_month == <<31, 29, 31, 30, 31, 30, 31, 31, 30, 31, 30, 31>>
is_valid_date_AnyDay(month, day) ==
    1 <= month /\ month <= 12 /\ 1 <= day /\ day <= 31
is_valid_date(month, day) ==
    IF ~(1 <= month /\ month <= 12 /\ 1 <= day /\ day <= 31) THEN FALSE
    ELSE day <= days_in_month[month]

seasons ==
    Keyed(<<<<"spring", <<3, 20>>>>, <<"summer", <<6, 21>>>>, <<"fall", <<9, 22>>>>,
      <<"autumn", <<9, 22>>>>, <<"winter", <<12, 21>>>>>>)
months ==
    Keyed(<<<<"january", <<1, 15>>>>, <<"jan", <<1, 15>>>>,
      <<"february", <<2, 15>>>>, <<"feb", <<2, 15>>>>,
      <<"march", <<3, 15>>>>, <<"mar", <<3, 15>>>>,
      <<"april", <<4, 15>>>>, <<"apr", <<4, 15>>>>,
      <<"may", <<5, 15>>>>,
      <<"june", <<6, 15>>>>, <<"jun", <<6, 15>>>>,
      <<"july", <<7, 15>>>>, <<"jul", <<7, 15>>>>,
      <<"august", <<8, 15>>>>, <<"aug", <<8, 15>>>>,
      <<"september", <<9, 15>>>>, <<"sep", <<9, 15>>>>, <<"sept", <<9, 15>>>>,
      <<"october", <<10, 15>>>>, <<"oct", <<10, 15>>>>,
      <<"november", <<11, 15>>>>, <<"nov", <<11, 15>>>>,
      <<"december", <<12, 15>>>>, <<"dec", <<12, 15>>>>>>)
\* (None, None)
NoDate == <<0, 0>>

\* (month, day) when the month is one and is_valid_date holds, else NoDate
DateIfValid(month, day) ==
    IF 1 <= month /\ month <= 12 /\ is_valid_date(month, day)
    THEN <<month, day>> ELSE NoDate

\* re.search(r'(\w+)\s+(\d{1,2})(?:st|nd|rd|th)?'): the pattern matches at
\* i when a run of word characters, then a run of spaces, then a digit
\* start there; the match is the one of the leftmost start
SpaceThenDigit(text, e) ==
    /\ e + 1 <= Len(text) /\ IsSpace(text[e + 1])
    /\ RunEnd(text, e + 1, IsSpace) + 1 <= Len(text)
    /\ IsDigit(text[RunEnd(text, e + 1, IsSpace) + 1])
WordDayStarts(text) ==
    {i \in 1..Len(text) :
        IsWord(text[i]) /\ SpaceThenDigit(text, RunEnd(text, i, IsWord))}
\* re.search(r'(\d{1,2})<sep>(\d{1,2})'): the starts at which it matches
TwoDigits(text, sep, i) ==
    /\ i + 3 <= Len(text) /\ IsDigit(text[i + 1])
    /\ text[i + 2] = sep /\ IsDigit(text[i + 3])
OneDigit(text, sep, i) ==
    i + 2 <= Len(text) /\ text[i + 1] = sep /\ IsDigit(text[i + 2])
NumericStarts(text, sep) ==
    {i \in 1..Len(text) :
        IsDigit(text[i]) /\ (TwoDigits(text, sep, i) \/ OneDigit(text, sep, i))}
Leftmost(starts) == CHOOSE i \in starts : \A j \in starts : i <= j

\* the date of the numeric pattern with separator sep, NoDate when the
\* pattern does not match or its match is no valid date
\* ... for the match at i whose first group is g1
NumericMatch(text, i, g1) ==
    DateIfValid(ToInt(g1), ToInt(Digits12(text, i + Len(g1) + 1)))
NumericAt(text, sep, i) ==
    NumericMatch(text, i, IF TwoDigits(text, sep, i)
                          THEN SubSeq(text, i, i + 1) ELSE SubSeq(text, i, i))
NumericDate(text, sep) ==
    IF NumericStarts(text, sep) = {} THEN NoDate
    ELSE NumericAt(text, sep, Leftmost(NumericStarts(text, sep)))

\* the date of the "month name + day" pattern, NoDate when the pattern does
\* not match, the name is no month or the date is not valid
\* ... for the match whose name is text[i..e]
WordDayMatch(text, i, e) ==
    DateIfValid(Get(months, SubSeq(text, i, e), NoDate)[1],
                ToInt(Digits12(text, RunEnd(text, e + 1, IsSpace) + 1)))
WordDayAt(text, i) == WordDayMatch(text, i, RunEnd(text, i, IsWord))
WordDayDate(text) ==
    IF WordDayStarts(text) = {} THEN NoDate
    ELSE WordDayAt(text, Leftmost(WordDayStarts(text)))

\* the first of the dates that is one, NoDate when none is
FirstDate(dates) ==
    IF \A i \in 1..Len(dates) : dates[i] = NoDate THEN NoDate
    ELSE dates[CHOOSE i \in 1..Len(dates) :
                  dates[i] # NoDate /\ \A j \in 1..(i - 1) : dates[j] = NoDate]
\* parse_season_to_date(season_input): <<month, day>>, or NoDate: the
\* season, else the month, else the first of the three patterns whose
\* match is a valid date
DateOf(season_lower) ==
    FirstDate(<<Get(seasons, season_lower, NoDate),
                Get(months, season_lower, NoDate),
                WordDayDate(season_lower),
                NumericDate(season_lower, "/"),
                NumericDate(season_lower, "-")>>)
parse_season_to_date(season_input) == DateOf(strip(lower(Chars(season_input))))

\* ------------------------------------------------------------------------
\* build_seasonality_condition
\* ------------------------------------------------------------------------
\* build_range_condition on the four columns of one range of a row
build_range_condition_EndExclusive(range, event_month, event_day) ==
    SqlAnd(SqlOr(SqlLt(range.start_month, event_month),
                 SqlAnd(SqlEq(range.start_month, event_month),
                        SqlLe(range.start_day, event_day))),
           SqlOr(SqlGt(range.end_month, event_month),
                 SqlAnd(SqlEq(range.end_month, event_month),
                        SqlGt(range.end_day, event_day))))
build_range_condition(range, event_month, event_day) ==
    SqlAnd(SqlOr(SqlLt(range.start_month, event_month),
                 SqlAnd(SqlEq(range.start_month, event_month),
                        SqlLe(range.start_day, event_day))),
           SqlOr(SqlGt(range.end_month, event_month),
                 SqlAnd(SqlEq(range.end_month, event_month),
                        SqlGe(range.end_day, event_day))))

\* the truth value of build_seasonality_condition(event_month, event_day)
\* on a row
build_seasonality_condition_TwoRanges(row, event_month, event_day) ==
    SqlOrAll({SqlEqBool(row.is_year_round, TRUE),
              build_range_condition(row.season, event_month, event_day),
              build_range_condition(row.season_range_2, event_month, event_day)})
build_seasonality_condition(row, event_month, event_day) ==
    SqlOrAll({SqlEqBool(row.is_year_round, TRUE),
              build_range_condition(row.season, event_month, event_day),
              build_range_condition(row.season_range_2, event_month, event_day),
              build_range_condition(row.season_range_3, event_month, event_day)})

\* ------------------------------------------------------------------------
\* build_sql_from_memory: the WHERE conditions
\* ------------------------------------------------------------------------
\* re.search(r'\d+', quantity): the first run of digits, <<>> when none
FirstNumber(text) ==
    LET starts == {i \in 1..Len(text) : IsDigit(text[i])}
    IN IF starts = {} THEN <<>>
       ELSE SubSeq(text, Leftmost(starts), RunEnd(text, Leftmost(starts), IsDigit))

\* the lower-cased entries of a list field
LowerAll(list) == [i \in 1..Len(list) |-> lower(Chars(list[i]))]

\* Each block of build_sql_from_memory appends no or one condition; a
\* condition is a record whose `of` names the memory field it comes from.
JoinColors(color_conditions_, logic) ==
    IF color_conditions_ = <<>> THEN <<>>
    ELSE <<[of |-> "colors", tests |-> color_conditions_, logic |-> logic]>>
ColorsCondition_AlwaysOr(memory, mapping) ==
    IF ~Truthy(memory.colors) THEN <<>>
    ELSE JoinColors(color_conditions(memory.colors.l, mapping), "OR")
ColorsCondition(memory, mapping) ==
    IF ~Truthy(memory.colors) THEN <<>>
    ELSE JoinColors(color_conditions(memory.colors.l, mapping),
                    IF memory.color_logic = Str("AND") THEN "AND" ELSE "OR")
ExcludeColorsCondition(memory) ==
    IF ~Truthy(memory.exclude_colors) THEN <<>>
    ELSE <<[of |-> "exclude_colors",
            tests |-> exclude_color_conditions(memory.exclude_colors.l)]>>
\* a list field whose entries become lower-case LIKE patterns
PatternsCondition(memory, field) ==
    IF ~Truthy(memory[field]) THEN <<>>
    ELSE <<[of |-> field, pats |-> LowerAll(memory[field].l)]>>
BudgetConditions_NoAround(memory) ==
    (IF memory.budget["max"] # Null
     THEN <<[of |-> "budget", key |-> "max", n |-> memory.budget["max"].n]>>
     ELSE <<>>)
    \o (IF memory.budget["min"] # Null
        THEN <<[of |-> "budget", key |-> "min", n |-> memory.budget["min"].n]>>
        ELSE <<>>)
BudgetConditions(memory) ==
    (IF memory.budget["max"] # Null
     THEN <<[of |-> "budget", key |-> "max", n |-> memory.budget["max"].n]>>
     ELSE <<>>)
    \o (IF memory.budget["min"] # Null
        THEN <<[of |-> "budget", key |-> "min", n |-> memory.budget["min"].n]>>
        ELSE <<>>)
    \o (IF memory.budget["around"] # Null
        THEN <<[of |-> "budget", key |-> "around",
                n |-> memory.budget["around"].n]>>
        ELSE <<>>)
EffortCondition(memory) ==
    IF ~Truthy(memory.effort_level) THEN <<>>
    ELSE <<[of |-> "effort_level", level |-> Chars(memory.effort_level.s)]>>
ExcludeEffortCondition(memory) ==
    IF ~Truthy(memory.exclude_effort_levels) THEN <<>>
    ELSE <<[of |-> "exclude_effort_levels",
            levels |-> [i \in 1..Len(memory.exclude_effort_levels.l) |->
                          Chars(memory.exclude_effort_levels.l[i])]]>>
ProductTypeCondition(memory) ==
    IF ~Truthy(memory.product_type) THEN <<>>
    ELSE <<[of |-> "product_type",
            pat |-> lower(Chars(memory.product_type.s))]>>
QuantityOf(quantity_num) ==
    IF quantity_num = <<>> THEN <<>>
    ELSE <<[of |-> "quantity", pat |-> quantity_num]>>
QuantityCondition(memory) ==
    IF ~Truthy(memory.quantity) THEN <<>>
    ELSE QuantityOf(FirstNumber(Chars(memory.quantity.s)))
SeasonOf(date) ==
    IF date[1] = 0 \/ date[2] = 0 THEN <<>>
    ELSE <<[of |-> "season", event_month |-> date[1], event_day |-> date[2]]>>
SeasonCondition(memory) ==
    IF ~Truthy(memory.season) THEN <<>>
    ELSE SeasonOf(parse_season_to_date(memory.season.s))

\* conditions: the list build_sql_from_memory joins with " AND "
conditions(memory, mapping) ==
    ColorsCondition(memory, mapping)
    \o ExcludeColorsCondition(memory)
    \o PatternsCondition(memory, "flower_types")
    \o PatternsCondition(memory, "exclude_flower_types")
    \o PatternsCondition(memory, "occasions")
    \o PatternsCondition(memory, "exclude_occasions")
    \o BudgetConditions(memory)
    \o EffortCondition(memory)
    \o ExcludeEffortCondition(memory)
    \o ProductTypeCondition(memory)
    \o PatternsCondition(memory, "exclude_product_types")
    \o QuantityCondition(memory)
    \o SeasonCondition(memory)

\* where_clause: the conditions joined with " AND ", the literal TRUE when
\* there is none
TrueLiteral == [of |-> "nothing", literal |-> "TRUE"]
JoinAnd(conditions_) == IF conditions_ = <<>> THEN <<TrueLiteral>> ELSE conditions_
where_clause_NoFallback(memory, mapping) == conditions(memory, mapping)
where_clause(memory, mapping) == JoinAnd(conditions(memory, mapping))

\* ------------------------------------------------------------------------
\* The conditions on a row of table flowers
\* ------------------------------------------------------------------------
FlowerColumns ==
    {"group_category", "recipe_metafield", "product_type_all_flowers",
     "product_name"}
ProductColumns == {"product_name", "product_type_all_flowers"}

\* col = 'text' / col != 'text' on a text column
SqlTextEq(col, text) == IF col = Null THEN "NULL" ELSE SqlBool(Chars(col.s) = text)
SqlTextNe(col, text) == IF col = Null THEN "NULL" ELSE SqlBool(Chars(col.s) # text)

\* the truth value of one condition on a row
Condition(cond, row) ==
    CASE cond = TrueLiteral -> "TRUE"
      [] cond.of = "colors" ->
           LET test(t) == ColorTest(t, row)
           IN SqlAnd(IF cond.logic = "AND"
                     THEN SqlAndAll(Vals(cond.tests, test))
                     ELSE SqlOrAll(Vals(cond.tests, test)),
                     SqlIsNotNull(row.colors_raw))
      [] cond.of = "exclude_colors" ->
           LET test(t) == ColorTest(t, row)
           IN SqlAndAll(Vals(cond.tests, test))
      [] cond.of = "flower_types" ->
           LET test(pat) == SqlOrAll({SqlLike(row[col], pat) : col \in FlowerColumns})
           IN SqlOrAll(Vals(cond.pats, test))
      [] cond.of = "exclude_flower_types" ->
           LET test(pat) == SqlAndAll({SqlNotLike(row[col], pat) : col \in FlowerColumns})
           IN SqlAndAll(Vals(cond.pats, test))
      [] cond.of = "occasions" ->
           \* (p1 OR ... OR pn AND holiday_occasion IS NOT NULL): AND binds
           \* the last pattern only
           LET n == Len(cond.pats)
               test(pat) == SqlLike(row.holiday_occasion, pat)
           IN SqlOr(SqlOrAll(Vals(SubSeq(cond.pats, 1, n - 1), test)),
                    SqlAnd(test(cond.pats[n]), SqlIsNotNull(row.holiday_occasion)))
      [] cond.of = "exclude_occasions" ->
           LET test(pat) == SqlNotLike(row.holiday_occasion, pat)
           IN SqlAndAll(Vals(cond.pats, test))
      [] cond.of = "budget" ->
           SqlAnd(CASE cond.key = "max" -> SqlLt(row.variant_price, cond.n)
                    [] cond.key = "min" -> SqlGe(row.variant_price, cond.n)
                    [] cond.key = "around" ->
                         SqlAnd(SqlGe(row.variant_price, cond.n - 20),
                                SqlLe(row.variant_price, cond.n + 20)),
                  SqlIsNotNull(row.variant_price))
      [] cond.of = "effort_level" ->
           SqlAnd(SqlTextEq(row.diy_level, cond.level), SqlIsNotNull(row.diy_level))
      [] cond.of = "exclude_effort_levels" ->
           LET test(level) == SqlTextNe(row.diy_level, level)
           IN SqlAndAll(Vals(cond.levels, test))
      [] cond.of = "product_type" ->
           SqlAnd(SqlOrAll({SqlLike(row[col], cond.pat) : col \in ProductColumns}),
                  SqlOrAll({SqlIsNotNull(row[col]) : col \in ProductColumns}))
      [] cond.of = "exclude_product_types" ->
           LET test(pat) == SqlAndAll({SqlNotLike(row[col], pat) : col \in ProductColumns})
           IN SqlAndAll(Vals(cond.pats, test))
      [] cond.of = "quantity" ->
           SqlAnd(SqlLike(row.variant_name, cond.pat), SqlIsNotNull(row.variant_name))
      [] cond.of = "season" ->
           build_seasonality_condition(row, cond.event_month, cond.event_day)

\* WHERE {where_clause}: the row is kept
Where(where, row) ==
    LET test(cond) == Condition(cond, row)
    IN SqlAndAll(Vals(where, test)) = "TRUE"

\* ------------------------------------------------------------------------
\* build_sql_from_memory: the query, and run_sql on table flowers
\* ------------------------------------------------------------------------
\* the query build_sql_from_memory returns: its WHERE clause (the rest of
\* the text is fixed)
build_sql_from_memory(memory, mapping) == [where |-> where_clause(memory, mapping)]

\* filtered: SELECT DISTINCT ON (product_name) ... WHERE {where_clause}.
\* Without ORDER BY the row kept of each product_name is not determined:
\* the set of the tables `filtered` can be.
RECURSIVE OneOfEach(_, _)
OneOfEach(names, passing) ==
    IF names = {} THEN {{}}
    ELSE LET name == CHOOSE n \in names : TRUE
         IN {kept \cup {row} :
               kept \in OneOfEach(names \ {name}, passing),
               row \in {p \in passing : p.product_name = name}}
DistinctOn(passing) == OneOfEach({row.product_name : row \in passing}, passing)
filtered_KeepsAll(flowers, where) ==
    {{row \in flowers : Where(where, row)}}
filtered(flowers, where) == DistinctOn({row \in flowers : Where(where, row)})

\* numbered: ROW_NUMBER() OVER (ORDER BY unique_id) AS rn, COUNT(*) OVER () AS c
numbered(f) ==
    {[row |-> row,
      rn |-> Cardinality({other \in f : other.unique_id.n <= row.unique_id.n}),
      c |-> Cardinality(f)] : row \in f}

\* GREATEST(0, x)
GREATEST(a, b) == IF a >= b THEN a ELSE b

\* params: FLOOR(random() * GREATEST(0, c - 6))::int AS r, where random()
\* returned draw / RandomSteps (0.0 <= random() < 1.0)
params(c, draw) == (draw * GREATEST(0, c - WindowSize)) \div RandomSteps

\* the final SELECT: numbered CROSS JOIN params WHERE rn > r AND rn <= r + 6
\* (params has no row when numbered has none)
select_NoUpperBound(f, draw) ==
    {[row |-> n.row, rn |-> n.rn, c |-> n.c, r |-> params(n.c, draw)] :
       n \in {m \in numbered(f) : m.rn > params(m.c, draw)}}
select(f, draw) ==
    {[row |-> n.row, rn |-> n.rn, c |-> n.c, r |-> params(n.c, draw)] :
       n \in {m \in numbered(f) :
                /\ m.rn > params(m.c, draw)
                /\ m.rn <= params(m.c, draw) + WindowSize}}

\* ------------------------------------------------------------------------
\* Inputs of a query: memories and tables
\* ------------------------------------------------------------------------
\* a range of a row: four columns, all NULL when the range is not set
Range(sm, sd, em, ed) ==
    [start_month |-> Num(sm), start_day |-> Num(sd),
     end_month |-> Num(em), end_day |-> Num(ed)]
NoRange ==
    [start_month |-> Null, start_day |-> Null, end_month |-> Null, end_day |-> Null]

\* the product names of the model: "p" and a number
ProductName(i) ==
    CASE i = 1 -> "p1" [] i = 2 -> "p2" [] i = 3 -> "p3" [] i = 4 -> "p4"
      [] i = 5 -> "p5" [] i = 6 -> "p6" [] i = 7 -> "p7" [] i = 8 -> "p8"
      [] i = 9 -> "p9" [] i = 10 -> "p10" [] i = 11 -> "p11"
      [] OTHER -> ToString(i)

\* a row of table flowers as final_data_cleaning.py writes it when the
\* source has neither colors nor seasonality: the flags false, the rest NULL
Row(id, name) ==
    [unique_id |-> Num(id), product_name |-> Str(name),
     variant_name |-> Null, variant_price |-> Null, colors_raw |-> Null,
     has_red |-> Bool(FALSE), has_pink |-> Bool(FALSE), has_white |-> Bool(FALSE),
     has_yellow |-> Bool(FALSE), has_orange |-> Bool(FALSE),
     has_purple |-> Bool(FALSE), has_blue |-> Bool(FALSE), has_green |-> Bool(FALSE),
     diy_level |-> Null, product_type_all_flowers |-> Null,
     group_category |-> Null, recipe_metafield |-> Null, holiday_occasion |-> Null,
     seasonality |-> Null, is_year_round |-> Bool(FALSE),
     season |-> NoRange, season_range_2 |-> NoRange, season_range_3 |-> NoRange]

\* rows that differ in their colors: every combination of three flags with
\* no, and with two different, raw color texts; two rows with a blue flag
RawColors == <<Null, Str("red;white"), Str("burgundy;teal")>>
ColorRow(k, red, white, pink, blue, raw) ==
    [Row(k, ProductName(k)) EXCEPT !.has_red = Bool(red), !.has_white = Bool(white),
                         !.has_pink = Bool(pink), !.has_blue = Bool(blue),
                         !.colors_raw = RawColors[raw]]
Bit(n, i) == (n \div (2 ^ i)) % 2 = 1
ColorCatalog ==
    {ColorRow(100 + 8 * raw + n, Bit(n, 0), Bit(n, 1), Bit(n, 2), FALSE, raw) :
        n \in 0..7, raw \in 1..3}
    \cup {ColorRow(140 + raw, FALSE, FALSE, FALSE, TRUE, raw) : raw \in 2..3}

\* the (month, day) pairs the ranges and the event dates of the model use
Dates ==
    <<<<1, 1>>, <<2, 20>>, <<5, 31>>, <<6, 1>>, <<6, 15>>, <<6, 30>>, <<7, 1>>,
      <<11, 15>>, <<12, 31>>>>
DateRange(i, j) == Range(Dates[i][1], Dates[i][2], Dates[j][1], Dates[j][2])
\* rows with one range: every pair of dates, the wraparound ones included
\* (parse_seasonality_to_numeric stores the range as the source gives it)
OneRangeCatalog ==
    {[Row(200 + 10 * i + j, ProductName(200 + 10 * i + j)) EXCEPT !.season = DateRange(i, j)] :
        i \in 1..Len(Dates), j \in 1..Len(Dates)}
\* rows with several ranges, with none, and year-round rows
SeveralRangesCatalog ==
    {[Row(400 + 20 * yr + 5 * a + b, ProductName(400 + 20 * yr + 5 * a + b)) EXCEPT
         !.is_year_round = Bool(yr = 1),
         !.season = <<NoRange, DateRange(3, 4), DateRange(6, 7)>>[a],
         !.season_range_2 = <<NoRange, DateRange(1, 2), DateRange(8, 9)>>[b],
         !.season_range_3 = IF a = b /\ a # 1 THEN DateRange(5, 5) ELSE NoRange] :
        yr \in 0..1, a \in 1..3, b \in 1..3}

\* a table of n products; product p has a row with unique_id 10 p, red
\* unless p = 3; the first `variants` products have a second row, with
\* unique_id 10 p + 1, red for product 2 only
SampleCatalog(n, variants) ==
    {[Row(10 * p, ProductName(p)) EXCEPT
         !.has_red = Bool(p # 3), !.colors_raw = Str("red;white")] : p \in 1..n}
    \cup {[Row(10 * p + 1, ProductName(p)) EXCEPT
             !.has_red = Bool(p = 2), !.colors_raw = Str("red;white")] :
            p \in 1..variants}
\* rows that differ in their price: no price, and the prices around the
\* bounds the budgets of the model give
Prices == <<Null, Num(49), Num(50), Num(51), Num(89), Num(90), Num(91),
            Num(99), Num(100), Num(101)>>
PriceCatalog ==
    {[Row(300 + i, ProductName(300 + i)) EXCEPT !.variant_price = Prices[i]] :
        i \in 1..Len(Prices)}

\* rows that differ in the columns the flower types are looked for in:
\* every combination of no text, a text with "rose" and a text without in
\* three of them, and three rows that differ in their product_name
FlowerTexts == <<Null, Str("Garden Rose"), Str("tulip")>>
FlowerCatalog ==
    {[Row(500 + 9 * a + 3 * b + c, ProductName(500 + 9 * a + 3 * b + c)) EXCEPT
         !.group_category = FlowerTexts[a],
         !.recipe_metafield = FlowerTexts[b],
         !.product_type_all_flowers = FlowerTexts[c]] :
        a \in 1..3, b \in 1..3, c \in 1..3}
    \cup {[Row(540 + i, <<"Garden Rose", "Lily Mix", "tulip">>[i]) EXCEPT
             !.group_category = Str("tulip"),
             !.recipe_metafield = Str("tulip"),
             !.product_type_all_flowers = Str("tulip")] : i \in 1..3}

Catalogs ==
    {ColorCatalog, OneRangeCatalog, SeveralRangesCatalog, PriceCatalog,
     FlowerCatalog}
    \cup {SampleCatalog(n, 0) : n \in 0..MaxProducts}
    \cup {SampleCatalog(n, 2) : n \in 2..MaxProducts}

\* the memory after one update that sets one field
With(field, value) == [MemoryState EXCEPT ![field] = value]
ColorLists ==
    {<<"red">>, <<"red", "white">>, <<"white", "pink">>, <<"red", "white", "pink">>,
     <<"Red", "white">>, <<"burgundy">>, <<"burgundy", "ivory">>, <<"teal">>,
     <<"brown">>, <<"cool colors">>, <<"Cool Colors", "red">>}
SeasonInputs ==
    {"1/1", "2/20", "5/31", "6/1", "6/15", "6/30", "7/1", "11/15", "12/31",
     "spring", "May 15", "june", "2/30", "no number here",
     "February 30", "February 29", "April 31", "13/1", "2/29"}
\* the budgets of a memory: each sub-key unset or set
Budgets ==
    {[min |-> lo, max |-> hi, around |-> mid] :
        lo \in {Null, Num(50)}, hi \in {Null, Num(100)}, mid \in {Null, Num(70)}}
FlowerLists == {<<"rose">>, <<"Rose", "lily">>, <<"peony">>}
QueryMemories ==
    {MemoryState}
    \cup {[With("colors", List(colors)) EXCEPT !.color_logic = Str(logic)] :
            colors \in ColorLists, logic \in {"AND", "OR"}}
    \cup {With("exclude_colors", List(colors)) : colors \in ColorLists}
    \cup {With("season", Str(season)) : season \in SeasonInputs}
    \cup {With("budget", budget) : budget \in Budgets}
    \cup {With("exclude_flower_types", List(flowers_)) : flowers_ \in FlowerLists}

\* ------------------------------------------------------------------------
\* final_data_cleaning.py: the seasonality columns
\* ------------------------------------------------------------------------
\* str.upper()
UpperChar(ch) ==
    CASE ch = "a" -> "A" [] ch = "b" -> "B" [] ch = "c" -> "C" [] ch = "d" -> "D"
      [] ch = "e" -> "E" [] ch = "f" -> "F" [] ch = "g" -> "G" [] ch = "h" -> "H"
      [] ch = "i" -> "I" [] ch = "j" -> "J" [] ch = "k" -> "K" [] ch = "l" -> "L"
      [] ch = "m" -> "M" [] ch = "n" -> "N" [] ch = "o" -> "O" [] ch = "p" -> "P"
      [] ch = "q" -> "Q" [] ch = "r" -> "R" [] ch = "s" -> "S" [] ch = "t" -> "T"
      [] ch = "u" -> "U" [] ch = "v" -> "V" [] ch = "w" -> "W" [] ch = "x" -> "X"
      [] ch = "y" -> "Y" [] ch = "z" -> "Z" [] OTHER -> ch
upper(text) == [i \in 1..Len(text) |-> UpperChar(text[i])]

\* str.split(sep): the text before the first sep, then the split of the rest
StartsAt(text, sep, i) == SubSeq(text, i, i + Len(sep) - 1) = sep
\* text.find(sep) + 1: the first place of sep in text, 0 when there is none
find(text, sep) ==
    IF \A i \in 1..(Len(text) - Len(sep) + 1) : ~StartsAt(text, sep, i) THEN 0
    ELSE CHOOSE i \in 1..(Len(text) - Len(sep) + 1) :
             StartsAt(text, sep, i) /\ \A j \in 1..(i - 1) : ~StartsAt(text, sep, j)
RECURSIVE split(_, _)
SplitAt(text, sep, i) ==
    IF i = 0 THEN <<text>>
    ELSE <<SubSeq(text, 1, i - 1)>> \o split(SubSeq(text, i + Len(sep), Len(text)), sep)
split(text, sep) == SplitAt(text, sep, find(text, sep))

\* str.split(): the words between runs of whitespace
NotSpace(ch) == ~IsSpace(ch)
RECURSIVE split_words(_)
WordsFrom(rest, e) ==
    <<SubSeq(rest, 1, e)>> \o split_words(SubSeq(rest, e + 1, Len(rest)))
Words(rest) ==
    IF rest = <<>> THEN <<>> ELSE WordsFrom(rest, RunEnd(rest, 1, NotSpace))
split_words(text) == Words(strip(text))

\* int(text) succeeds, and its value
IsInt(text) == text # <<>> /\ \A i \in 1..Len(text) : IsDigit(text[i])
RECURSIVE IntOf(_)
IntOf(digits) ==
    IF digits = <<>> THEN 0
    ELSE 10 * IntOf(SubSeq(digits, 1, Len(digits) - 1)) + DigitVal(digits[Len(digits)])

month_map ==
    Keyed(<<<<"jan", 1>>, <<"feb", 2>>, <<"mar", 3>>, <<"apr", 4>>,
            <<"may", 5>>, <<"jun", 6>>, <<"jul", 7>>, <<"aug", 8>>,
            <<"sep", 9>>, <<"oct", 10>>, <<"nov", 11>>, <<"dec", 12>>>>)

\* parse_month_day: 'May 28' gives (5, 28); an IndexError, a ValueError and
\* an unknown month give (None, None)
MonthDay(month, day) == IF month = 0 THEN NoDate ELSE <<month, day>>
MonthDayOf(parts) ==
    IF Len(parts) < 2 THEN NoDate
    ELSE IF ~IsInt(parts[2]) THEN NoDate
    ELSE MonthDay(Get(month_map,
                      lower(SubSeq(parts[1], 1, IF Len(parts[1]) < 3 THEN Len(parts[1]) ELSE 3)),
                      0),
                  IntOf(parts[2]))
parse_month_day(date_str) == MonthDayOf(split_words(strip(date_str)))

\* ' - '
RangeSeparator == <<" ", "-", " ">>

\* parse_seasonality_to_numeric: the columns of the three range slots and
\* is_year_round for a source seasonality (NULL or a text)
\* ... what the loop writes for a start and an end; NoRange when it skips
StoredRange(start, end) ==
    IF start = NoDate \/ end = NoDate THEN NoRange
    ELSE Range(start[1], start[2], end[1], end[2])
\* ... for the parts of range_str.split(' - ')
RangeOfHalves(halves) ==
    IF Len(halves) # 2 THEN NoRange
    ELSE StoredRange(parse_month_day(strip(halves[1])),
                     parse_month_day(strip(halves[2])))
\* ... for ranges[i]
written(ranges, i) ==
    IF i > Len(ranges) THEN NoRange
    ELSE IF ~Contains(strip(ranges[i]), RangeSeparator) THEN NoRange
    ELSE RangeOfHalves(split(strip(ranges[i]), RangeSeparator))
\* ... for the stripped text
Numeric(text, ranges) ==
    IF upper(text) = <<"Y", "R">>
    THEN [season |-> NoRange, season_range_2 |-> NoRange,
          season_range_3 |-> NoRange, is_year_round |-> Bool(TRUE)]
    ELSE [season |-> written(ranges, 1), season_range_2 |-> written(ranges, 2),
          season_range_3 |-> written(ranges, 3), is_year_round |-> Bool(FALSE)]
NumericOf(text) == Numeric(text, split(text, <<";">>))
parse_seasonality_to_numeric(seasonality_str) ==
    IF seasonality_str = Null \/ seasonality_str = Str("")
    THEN [season |-> NoRange, season_range_2 |-> NoRange,
          season_range_3 |-> NoRange, is_year_round |-> Bool(FALSE)]
    ELSE NumericOf(strip(Chars(seasonality_str.s)))

\* the row clean_flower_data writes for a source product that has nothing
\* but an id and a seasonality
SeasonalityRow(row, seasonality, seasonality_data) ==
    [row EXCEPT
        !.seasonality = seasonality,
        !.is_year_round = seasonality_data.is_year_round,
        !.season = seasonality_data.season,
        !.season_range_2 = seasonality_data.season_range_2,
        !.season_range_3 = seasonality_data.season_range_3]
CleanRow(id, seasonality) ==
    SeasonalityRow(Row(id, ProductName(id)), seasonality,
                   parse_seasonality_to_numeric(seasonality))

\* source seasonalities: year-round, one to four ranges, ranges that span
\* the turn of the year written as one range and as two, and malformed ones
Seasonalities ==
    <<Null, Str(""), Str("YR"), Str(" yr "), Str("Jun 1 - Jun 30"),
      Str("Nov 15 - Feb 20"), Str("Dec 31 - Jan 1"),
      Str("Nov 15 - Dec 31; Jan 1 - Feb 20"),
      Str("Mar 1 - May 31; Sep 1 - Nov 15; Dec 1 - Dec 31"),
      Str("January 1 - June 15"),
      Str("Jun 1 - Jun 30; Jul 1 - Jul 1; Nov 15 - Dec 31; Jan 1 - Feb 20"),
      Str("Jun 1-Jun 30"), Str("bad; Jun 1 - Jun 30"), Str("Foo 1 - Jun 30"),
      Str("Jun - Jun 30"), Str("Jun x - Jun 30"), Str("Jun 1 - Jun 15 - Jun 30")>>
\* source sheets: the products of a sheet are numbers into Seasonalities
Sheets ==
    {{i} : i \in 1..Len(Seasonalities)} \cup {{3, 5, 6, 8}, {6, 7}, {1, 9, 11, 13}}
\* the memories of the queries on cleaned data
SeasonMemories ==
    {MemoryState} \cup {With("season", Str(season)) : season \in SeasonInputs}

\* ------------------------------------------------------------------------
\* FlowerConsultant: state
\* ------------------------------------------------------------------------
VARIABLES
    memory,       \* self.memory: the MemoryState of the conversation
    count,        \* self.count: the number of calls of ask
    before,       \* the memory when the last call of ask began
    llm,          \* what the parser LLM did in the last call
    sql_result,   \* "none" when the last call built no query and did not
                  \* call run_sql, else what run_sql did: "rows" or "raise"
    output,       \* what the last call printed, in order
    COLOR_MAPPING, \* the module's COLOR_MAPPING: the file it was loaded from
    flowers,      \* the rows of table flowers
    rows          \* the rows run_sql returned, each with its rn, c and r

\* web_demo.py: the state of the Flask application
VARIABLES
    chatbots,     \* the dict chatbots: session id -> its FlowerConsultant,
                  \* an index in consultants
    consultants,  \* the FlowerConsultant objects created, in the order of
                  \* their creation: the memory of each
    sys_stdout,   \* sys.stdout: the stream print writes to
    streams,      \* what has been written to each StringIO, in order
    frame,        \* of each thread of the server: the request it handles,
                  \* the statement it is at and its local variables
    served,       \* the number of requests the server has accepted
    created,      \* of each session id: the FlowerConsultant objects
                  \* created for it since its last reset
    clean         \* of each session id: a /reset of it has returned while
                  \* no /chat of it was being handled, and none was
                  \* accepted since

\* consultation.py: the state of a FlowerConsultantChat
VARIABLES
    consultation_state,  \* self.consultation_state
    previous_state,      \* consultation_state when the last call of ask began
    reply,               \* the reply the last call of ask returned
    asked,               \* the replies returned so far, in order
    turns                \* the number of calls of ask

consultant_vars == <<memory, count, before, llm, sql_result, output,
                     COLOR_MAPPING, flowers, rows>>
web_vars == <<chatbots, consultants, sys_stdout, streams, frame, served,
              created, clean>>
chat_vars == <<consultation_state, previous_state, reply, asked, turns>>
vars == <<consultant_vars, web_vars, chat_vars>>

\* the session ids of the requests, and the threads of the server
Sessions == {"A", "B"}
Threads == {1, 2}
\* the stream sys.stdout is when the server starts, and the StringIO the
\* handler of request n creates
Original == <<>>
StringIO(n) == <<n>>
Buffers == {StringIO(n) : n \in 1..MaxRequests}
\* a thread that handles no request
IdleFrame ==
    [pc |-> "idle", n |-> 0, route |-> "", session_id |-> "", message |-> "",
     bot |-> 0, old_stdout |-> Original, response |-> <<>>]
\* the module as imported: `chatbots = {}`, no request accepted
ServerStarted ==
    /\ chatbots = <<>>
    /\ consultants = <<>>
    /\ sys_stdout = Original
    /\ streams = [buffer \in Buffers |-> <<>>]
    /\ frame = [t \in Threads |-> IdleFrame]
    /\ served = 0
    /\ created = [s \in Sessions |-> 0]
    /\ clean = [s \in Sessions |-> FALSE]

\* FlowerConsultantChat.reset_consultation: "" and <<>> stand for None
ConsultationStart ==
    [occasion |-> "", event_date |-> <<>>, season |-> "", theme |-> <<>>,
     effort_type |-> "",
     preferences |-> [colors |-> {}, flowers |-> {}, raw |-> ""],
     phase |-> "greeting"]
ConsultationStarted ==
    /\ consultation_state = ConsultationStart
    /\ previous_state = ConsultationStart
    /\ reply = ""
    /\ asked = <<>>
    /\ turns = 0

\* FlowerConsultant.__init__
Init ==
    /\ memory = MemoryState
    /\ count = 0
    /\ before = MemoryState
    /\ llm = LlmJson(Obj(<<>>))
    /\ sql_result = "none"
    /\ output = <<>>
    /\ COLOR_MAPPING = "color_mapping.json"
    /\ flowers = {}
    /\ rows = {}
    /\ ServerStarted
    /\ ConsultationStarted

\* FlowerConsultant.ask(user_input), in which the parser LLM does l and
\* run_sql, when the call gets as far as calling it, returns rows or raises
ask_RollsBack(l) ==
    LET p == parse_user_input(l)
        u == update_from_dict(memory, p.data)
        printed == IF p.parser_error THEN <<"Parser error">> ELSE <<>>
    IN /\ count < MaxTurns
       /\ count' = count + 1
       /\ before' = memory
       /\ llm' = l
       /\ UNCHANGED <<COLOR_MAPPING, flowers, rows, web_vars, chat_vars>>
       /\ IF u.raised
          THEN /\ memory' = u.mem
               /\ sql_result' = "none"
               /\ output' = printed \o <<"Error parsing user input">>
          ELSE \E s \in SqlOutcomes :
               /\ memory' = IF s = "raise" THEN memory ELSE u.mem
               /\ sql_result' = s
               /\ output' = printed \o
                    <<IF s = "raise" THEN "SQL execution error"
                                     ELSE "Flower Assistant">>
ask(l) ==
    LET p == parse_user_input(l)
        u == update_from_dict(memory, p.data)
        printed == IF p.parser_error THEN <<"Parser error">> ELSE <<>>
    IN /\ count < MaxTurns
       /\ count' = count + 1
       /\ before' = memory
       /\ llm' = l
       /\ UNCHANGED <<COLOR_MAPPING, flowers, rows, web_vars, chat_vars>>
       /\ memory' = u.mem
       /\ IF u.raised
          THEN \* except of STEP 1: print and return
               /\ sql_result' = "none"
               /\ output' = printed \o <<"Error parsing user input">>
          ELSE \* STEP 2 builds the query of the updated memory, STEP 3 runs it
               \E s \in SqlOutcomes :
               /\ sql_result' = s
               /\ output' = printed \o
                    <<IF s = "raise" THEN "SQL execution error"
                                     ELSE "Flower Assistant">>

Next == \E l \in LlmOutcomes : ask(l)

Spec == Init /\ [][Next]_vars

\* ------------------------------------------------------------------------
\* One query: build_sql_from_memory and run_sql on a memory and a table
\* ------------------------------------------------------------------------
\* a consultant whose memory holds one field, over a table flowers; no
\* query has run
InitQuery ==
    /\ memory \in QueryMemories
    /\ COLOR_MAPPING \in ColorMappings
    /\ flowers \in Catalogs
    /\ rows = {}
    /\ count = 0
    /\ before = MemoryState
    /\ llm = LlmJson(Obj(<<>>))
    /\ sql_result = "none"
    /\ output = <<>>
    /\ ServerStarted
    /\ ConsultationStarted

\* STEP 2 and STEP 3 of ask: run_sql(build_sql_from_memory(self.memory)),
\* in which DISTINCT ON keeps the table f and random() returns
\* draw / RandomSteps
run_sql ==
    /\ sql_result = "none"
    /\ \E f \in filtered(flowers, build_sql_from_memory(memory, COLOR_MAPPING).where),
          draw \in 0..(RandomSteps - 1) :
            rows' = select(f, draw)
    /\ sql_result' = "rows"
    /\ UNCHANGED <<memory, count, before, llm, output, COLOR_MAPPING, flowers,
                   web_vars, chat_vars>>

NextQuery == run_sql

SpecQuery == InitQuery /\ [][NextQuery]_vars

\* ------------------------------------------------------------------------
\* A query on the table final_data_cleaning.py prepares
\* ------------------------------------------------------------------------
\* the table is empty until the data preparation has run
InitClean ==
    /\ memory \in SeasonMemories
    /\ COLOR_MAPPING = "color_mapping.json"
    /\ flowers = {}
    /\ rows = {}
    /\ count = 0
    /\ before = MemoryState
    /\ llm = LlmJson(Obj(<<>>))
    /\ sql_result = "none"
    /\ output = <<>>
    /\ ServerStarted
    /\ ConsultationStarted

\* clean_flower_data on a source sheet, and the load of its output
clean_flower_data ==
    /\ flowers = {}
    /\ sql_result = "none"
    /\ \E sheet \in Sheets :
          flowers' = {CleanRow(i, Seasonalities[i]) : i \in sheet}
    /\ UNCHANGED <<memory, count, before, llm, sql_result, output, COLOR_MAPPING, rows,
                   web_vars, chat_vars>>

NextClean == clean_flower_data \/ run_sql

SpecClean == InitClean /\ [][NextClean]_vars

\* ------------------------------------------------------------------------
\* web_demo.py: /chat and /reset, each request handled by a thread of the
\* server (app.run serves every request in a thread of its own); a step is
\* one statement of the handler
\* ------------------------------------------------------------------------
\* the messages of the requests, '' being a request without message, and
\* what the parser LLM extracts of each
Messages == {"", "red roses"}
Extracted(message) == <<<<Key("colors"), List(<<"red">>)>>>>
Routes == {"/chat", "/reset"}

\* the thread is at statement pc of the handler of its request
At(t, pc) == frame[t].pc = pc
\* the thread goes on to statement pc
Goto(t, pc) == frame' = [frame EXCEPT ![t].pc = pc]
\* the handler returns (or raises): the thread is free again
Done(t) == frame' = [frame EXCEPT ![t] = IdleFrame]
\* a /chat request of the session is being handled
ChatInFlight(s) ==
    \E t \in Threads : frame[t].route = "/chat" /\ frame[t].session_id = s
\* /reset of session s returns: the history of the session begins anew
ResetReturns(s) ==
    /\ created' = [created EXCEPT ![s] = 0]
    /\ clean' = [clean EXCEPT ![s] = ~ChatInFlight(s)]

\* the server accepts a request and hands it to a free thread; chat() with
\* no message returns 400 at once (lines 31-36), reset() and chat() with a
\* message go on
accept(t) ==
    /\ At(t, "idle")
    /\ served < MaxRequests
    /\ served' = served + 1
    /\ \E route \in Routes, s \in Sessions, message \in Messages :
          /\ route = "/reset" => message = ""
          /\ IF route = "/chat" /\ message = ""
             THEN UNCHANGED <<frame, clean>>
             ELSE /\ frame' = [frame EXCEPT ![t] =
                        [IdleFrame EXCEPT !.pc = IF route = "/chat" THEN "get_chatbot"
                                                ELSE "reset",
                                          !.n = served + 1,
                                          !.route = route,
                                          !.session_id = s,
                                          !.message = message]]
                  /\ clean' = IF route = "/chat" THEN [clean EXCEPT ![s] = FALSE]
                              ELSE clean
    /\ UNCHANGED <<chatbots, consultants, sys_stdout, streams, created>>
    /\ UNCHANGED <<consultant_vars, chat_vars>>

\* get_chatbot, line 16: `if session_id not in chatbots`
get_chatbot(t) ==
    /\ At(t, "get_chatbot")
    /\ Goto(t, IF frame[t].session_id \in DOMAIN chatbots THEN "return" ELSE "create")
    /\ UNCHANGED <<chatbots, consultants, sys_stdout, streams, served, created, clean>>
    /\ UNCHANGED <<consultant_vars, chat_vars>>

\* get_chatbot, line 17: `chatbots[session_id] = FlowerConsultant(debug=False)`
get_chatbot_create_SharedDemo(t) ==
    /\ At(t, "create")
    /\ consultants' = Append(consultants, [memory |-> MemoryState])
    /\ chatbots' = [s \in Sessions |-> Len(consultants) + 1]
    /\ created' = [created EXCEPT ![frame[t].session_id] = @ + 1]
    /\ Goto(t, "return")
    /\ UNCHANGED <<sys_stdout, streams, served, clean>>
    /\ UNCHANGED <<consultant_vars, chat_vars>>
get_chatbot_create(t) ==
    /\ At(t, "create")
    /\ consultants' = Append(consultants, [memory |-> MemoryState])
    /\ chatbots' = [s \in DOMAIN chatbots \cup {frame[t].session_id} |->
                      IF s = frame[t].session_id THEN Len(consultants) + 1
                      ELSE chatbots[s]]
    /\ created' = [created EXCEPT ![frame[t].session_id] = @ + 1]
    /\ Goto(t, "return")
    /\ UNCHANGED <<sys_stdout, streams, served, clean>>
    /\ UNCHANGED <<consultant_vars, chat_vars>>

\* get_chatbot, line 18: `return chatbots[session_id]`, a KeyError (the
\* request fails) when a /reset has deleted the entry in between; then
\* line 39: `bot = get_chatbot(session_id)`
get_chatbot_return(t) ==
    /\ At(t, "return")
    /\ IF frame[t].session_id \in DOMAIN chatbots
       THEN frame' = [frame EXCEPT ![t].pc = "old_stdout",
                                   ![t].bot = chatbots[frame[t].session_id]]
       ELSE Done(t)
    /\ UNCHANGED <<chatbots, consultants, sys_stdout, streams, served, created, clean>>
    /\ UNCHANGED <<consultant_vars, chat_vars>>

\* chat, line 46: `old_stdout = sys.stdout`
save_stdout(t) ==
    /\ At(t, "old_stdout")
    /\ frame' = [frame EXCEPT ![t].pc = "redirect", ![t].old_stdout = sys_stdout]
    /\ UNCHANGED <<chatbots, consultants, sys_stdout, streams, served, created, clean>>
    /\ UNCHANGED <<consultant_vars, chat_vars>>

\* chat, line 47: `sys.stdout = buffer = io.StringIO()`
redirect_stdout(t) ==
    /\ At(t, "redirect")
    /\ sys_stdout' = StringIO(frame[t].n)
    /\ Goto(t, "ask")
    /\ UNCHANGED <<chatbots, consultants, streams, served, created, clean>>
    /\ UNCHANGED <<consultant_vars, chat_vars>>

\* chat, line 50: bot.ask(user_message), its first part: the parser LLM
\* extracts the update and update_from_dict applies it to the memory of bot
bot_ask_update(t) ==
    /\ At(t, "ask")
    /\ consultants' =
          [consultants EXCEPT ![frame[t].bot].memory =
              update_from_dict(@, Obj(Extracted(frame[t].message))).mem]
    /\ Goto(t, "print")
    /\ UNCHANGED <<chatbots, sys_stdout, streams, served, created, clean>>
    /\ UNCHANGED <<consultant_vars, chat_vars>>

\* bot.ask, its last part: the query has run and the answer of the turn,
\* here the number of the request, is printed: print writes to what
\* sys.stdout is now, a StringIO or the original stream (of which the
\* model keeps nothing)
bot_ask_print(t) ==
    /\ At(t, "print")
    /\ streams' = IF sys_stdout = Original THEN streams
                  ELSE [streams EXCEPT ![sys_stdout] = Append(@, frame[t].n)]
    /\ Goto(t, "getvalue")
    /\ UNCHANGED <<chatbots, consultants, sys_stdout, served, created, clean>>
    /\ UNCHANGED <<consultant_vars, chat_vars>>

\* chat, line 51: `response = buffer.getvalue()`
getvalue(t) ==
    /\ At(t, "getvalue")
    /\ frame' = [frame EXCEPT ![t].pc = "restore",
                               ![t].response = streams[StringIO(frame[t].n)]]
    /\ UNCHANGED <<chatbots, consultants, sys_stdout, streams, served, created, clean>>
    /\ UNCHANGED <<consultant_vars, chat_vars>>

\* chat, line 53: `sys.stdout = old_stdout`, and lines 56-66: the response
\* is returned
restore_stdout(t) ==
    /\ At(t, "restore")
    /\ sys_stdout' = frame[t].old_stdout
    /\ Done(t)
    /\ UNCHANGED <<chatbots, consultants, streams, served, created, clean>>
    /\ UNCHANGED <<consultant_vars, chat_vars>>

\* reset, line 74: `if session_id in chatbots`; without entry the handler
\* returns
reset(t) ==
    /\ At(t, "reset")
    /\ IF frame[t].session_id \in DOMAIN chatbots
       THEN Goto(t, "del") /\ UNCHANGED <<created, clean>>
       ELSE Done(t) /\ ResetReturns(frame[t].session_id)
    /\ UNCHANGED <<chatbots, consultants, sys_stdout, streams, served>>
    /\ UNCHANGED <<consultant_vars, chat_vars>>

\* reset, line 75: `del chatbots[session_id]`, a KeyError (the request
\* fails) when another /reset has deleted the entry in between
reset_del(t) ==
    /\ At(t, "del")
    /\ Done(t)
    /\ IF frame[t].session_id \in DOMAIN chatbots
       THEN /\ chatbots' = [s \in DOMAIN chatbots \ {frame[t].session_id} |->
                              chatbots[s]]
            /\ ResetReturns(frame[t].session_id)
       ELSE UNCHANGED <<chatbots, created, clean>>
    /\ UNCHANGED <<consultants, sys_stdout, streams, served>>
    /\ UNCHANGED <<consultant_vars, chat_vars>>

InitWeb ==
    /\ memory = MemoryState
    /\ count = 0
    /\ before = MemoryState
    /\ llm = LlmJson(Obj(<<>>))
    /\ sql_result = "none"
    /\ output = <<>>
    /\ COLOR_MAPPING = "color_mapping.json"
    /\ flowers = {}
    /\ rows = {}
    /\ ServerStarted
    /\ ConsultationStarted

NextWeb ==
    \E t \in Threads :
        \/ accept(t)
        \/ get_chatbot(t)
        \/ get_chatbot_create(t)
        \/ get_chatbot_return(t)
        \/ save_stdout(t)
        \/ redirect_stdout(t)
        \/ bot_ask_update(t)
        \/ bot_ask_print(t)
        \/ getvalue(t)
        \/ restore_stdout(t)
        \/ reset(t)
        \/ reset_del(t)

SpecWeb == InitWeb /\ [][NextWeb]_vars

\* ------------------------------------------------------------------------
\* The last turn, as the properties below see it
\* ------------------------------------------------------------------------
\* a call of ask has taken place
Turn == count > 0
\* ... in which the extractor returned a JSON object, the update `items`
IsUpdate == Turn /\ llm.kind = "json" /\ llm.val.t = "obj"
items == llm.val.items
\* ... in which update_from_dict returned (the turn went on to the query)
Returned == Turn /\ sql_result # "none"
\* the update carries the directive REMOVE_<name>, with any value
HasRemove(name) == \E i \in 1..Len(items) : items[i][1] = RemoveKey(name)
\* the update carries REMOVE_<name>: true
RemoveTrue(name) == \E i \in 1..Len(items) : items[i] = <<RemoveKey(name), Bool(TRUE)>>
\* the update gives the field a non-empty value
Gives(name) == HasKey(items, name) /\ Truthy(GetKey(items, name))
\* a list or scalar field holds a constraint
IsSet(v) == v # Null /\ v # List(<<>>)
BudgetKeys == {"min", "max", "around"}
\* the extractor failed: it raised or timed out, its text is not JSON, or
\* the JSON is not an update (not an object, or a non-empty budget that is
\* no dict)
Malformed(v) ==
    \/ v.t # "obj"
    \/ /\ HasKey(v.items, "budget")
       /\ Truthy(GetKey(v.items, "budget"))
       /\ GetKey(v.items, "budget").t # "dict"
ExtractionFailed ==
    Turn /\ (llm.kind \in {"raise", "text"} \/ Malformed(llm.val))

\* ------------------------------------------------------------------------
\* C1
\* ------------------------------------------------------------------------
\* C1 as stated: after an update that contains REMOVE_all: true, every field
\* is at its empty default, the additive fields of the update being ignored.
C1_RemoveAllWins ==
    (IsUpdate /\ Returned /\ RemoveTrue("all")) => memory = MemoryState

\* C1 amended: after an update that contains REMOVE_all: true, every field
\* the update gives no non-empty value is at its empty default, and when
\* update_from_dict returns every field the update gives a non-empty value
\* holds that value (the budget: the given sub-keys over an empty budget).
C1_RemoveAllThenAdditive ==
    (IsUpdate /\ RemoveTrue("all")) =>
        \A f \in Fields :
            IF ~Gives(f) THEN memory[f] = MemoryState[f]
            ELSE Returned =>
                   IF f = "budget"
                   THEN \A k \in BudgetKeys :
                          memory.budget[k] =
                            IF k \in DOMAIN GetKey(items, f).d
                            THEN GetKey(items, f).d[k] ELSE Null
                   ELSE memory[f] = GetKey(items, f)

\* a turn with REMOVE_all and an additive field: the field holds the new
\* value and a field that was set before the turn is back at its default
C1_Witness ==
    /\ IsUpdate /\ Returned /\ RemoveTrue("all")
    /\ \E f \in Fields \ {"budget"} :
          /\ Gives(f) /\ memory[f] = GetKey(items, f)
          /\ \E g \in Fields \ {f} :
                before[g] # MemoryState[g] /\ memory[g] = MemoryState[g]

\* ------------------------------------------------------------------------
\* C2
\* ------------------------------------------------------------------------
\* C2: the memory after a turn is the memory before it or the merge of the
\* whole update: a turn whose update_from_dict raised leaves the memory as
\* it was.
C2_AllOrNothing == (Turn /\ ~Returned) => memory = before

\* ------------------------------------------------------------------------
\* C3
\* ------------------------------------------------------------------------
\* C3 as stated: after a turn in which run_sql raises, the memory equals
\* the memory before the turn.
C3_SqlFailureRestoresMemory == (Turn /\ sql_result = "raise") => memory = before

\* C3 amended: after a turn in which run_sql raises, the memory is the one
\* update_from_dict made of the memory before the turn and the extracted
\* update: the failure changes nothing more and undoes nothing.
C3_SqlFailureKeepsUpdate ==
    (Turn /\ sql_result = "raise") =>
        memory = update_from_dict(before, parse_user_input(llm).data).mem

\* run_sql raised in a turn whose update changed the memory
C3_Witness == Turn /\ sql_result = "raise" /\ memory # before

\* ------------------------------------------------------------------------
\* C4
\* ------------------------------------------------------------------------
\* C4: in a turn in which the extractor fails, every field of the memory
\* after the turn equals its value before the turn.
C4_ExtractionFailureKeepsMemory == ExtractionFailed => memory = before

C6_OnlyRemovalClears ==
    (IsUpdate /\ ~HasRemove("all")) =>
        /\ \A f \in ListFields \cup ScalarFields :
              (IsSet(before[f]) /\ ~HasRemove(f)) => IsSet(memory[f])
        /\ \A k \in BudgetKeys :
              (before.budget[k] # Null /\ ~HasRemove("budget")) =>
                  memory.budget[k] # Null

\* ------------------------------------------------------------------------
\* C7
\* ------------------------------------------------------------------------
\* C7 as stated: after update_from_dict, a list or scalar field the update
\* gives a non-empty value v equals v; of the budget, the sub-keys of the
\* update hold the update's values and the others their previous values.
C7_Replace ==
    (IsUpdate /\ Returned) =>
        /\ \A f \in Fields \ {"budget"} :
              Gives(f) => memory[f] = GetKey(items, f)
        /\ Gives("budget") =>
              \A k \in BudgetKeys :
                 memory.budget[k] =
                   IF k \in DOMAIN GetKey(items, "budget").d
                   THEN GetKey(items, "budget").d[k]
                   ELSE before.budget[k]

\* C7 amended: as C7, but the budget sub-keys the update does not give
\* keep their previous values only when the update carries neither
\* REMOVE_budget nor REMOVE_all; when it does, they are null.
C7_ReplaceAfterRemoval ==
    (IsUpdate /\ Returned) =>
        /\ \A f \in Fields \ {"budget"} :
              Gives(f) => memory[f] = GetKey(items, f)
        /\ Gives("budget") =>
              \A k \in BudgetKeys :
                 memory.budget[k] =
                   IF k \in DOMAIN GetKey(items, "budget").d
                   THEN GetKey(items, "budget").d[k]
                   ELSE IF HasRemove("budget") \/ HasRemove("all")
                        THEN Null
                        ELSE before.budget[k]

\* a list field that held one value is given another one and holds only
\* the new one
C7_Witness ==
    /\ IsUpdate /\ Returned
    /\ \E f \in ListFields :
          /\ Gives(f) /\ IsSet(before[f])
          /\ before[f] # GetKey(items, f)
          /\ memory[f] = GetKey(items, f)

\* ------------------------------------------------------------------------
\* C8
\* ------------------------------------------------------------------------
\* the update has no REMOVE_ key and gives every field it names an empty
\* value (empty list, null, empty string, empty dict); {} is such an update
EmptyUpdate ==
    /\ IsUpdate
    /\ \A i \in 1..Len(items) :
          /\ ~StartsWithRemove(items[i][1])
          /\ FieldName(items[i][1]) \in Fields => ~Truthy(items[i][2])

\* C8: an empty update changes no field of the memory.
C8_EmptyUpdateNoOp == EmptyUpdate => memory = before

\* an update that names fields with empty values, on a memory in which one
\* of these fields is set
C8_Witness ==
    /\ EmptyUpdate
    /\ \E f \in Fields :
          HasKey(items, f) /\ before[f] # MemoryState[f] /\ memory[f] = before[f]

\* ------------------------------------------------------------------------
\* C9
\* ------------------------------------------------------------------------
\* the update is {REMOVE_<name>: true}
OnlyRemove(name) == IsUpdate /\ items = <<<<RemoveKey(name), Bool(TRUE)>>>>

\* C9 as stated: for every field f, the update {REMOVE_f: true} leaves f at
\* its empty default.
C9_RemoveField == \A f \in Fields : OnlyRemove(f) => memory[f] = MemoryState[f]

\* C9 amended: for every field f but color_logic, {REMOVE_f: true} leaves f
\* at its empty default; REMOVE_color_logic is no directive of the code:
\* {REMOVE_color_logic: true} leaves the memory, color_logic included, as
\* it was.
C9_RemoveFieldButColorLogic ==
    /\ \A f \in Fields \ {"color_logic"} :
          OnlyRemove(f) => memory[f] = MemoryState[f]
    /\ OnlyRemove("color_logic") => memory = before

\* {REMOVE_season: true} on a memory in which the season is set
C9_Witness ==
    /\ OnlyRemove("season")
    /\ before.season # Null
    /\ memory.season = Null

\* ------------------------------------------------------------------------
\* C10
\* ------------------------------------------------------------------------
\* C10: after an update without REMOVE_all, every field that the update
\* neither gives a non-empty value nor names in a REMOVE_ directive has the
\* value it had before.
C10_OtherFieldsKept ==
    (IsUpdate /\ ~HasRemove("all")) =>
        \A f \in Fields :
            (~Gives(f) /\ ~HasRemove(f)) => memory[f] = before[f]

\* colors in one turn, the budget in the next: the memory holds both
C10_Witness ==
    /\ IsUpdate /\ Returned /\ ~HasRemove("all")
    /\ Gives("budget") /\ ~HasKey(items, "colors") /\ ~HasRemove("colors")
    /\ IsSet(before.colors) /\ before.budget = EmptyBudget
    /\ memory.colors = before.colors
    /\ memory.budget # EmptyBudget

\* ------------------------------------------------------------------------
\* C11
\* ------------------------------------------------------------------------
\* C11: update_from_dict is idempotent: the memory a turn leaves, which is
\* the memory before the turn with the update applied once, is left as it
\* is by applying the same update to it once more.
C11_Idempotent ==
    IsUpdate => update_from_dict(memory, llm.val).mem = memory

\* a turn whose update mixes a removal directive with an additive field and
\* changes a memory in which fields were set
C11_Witness ==
    /\ IsUpdate /\ Returned
    /\ \E f \in Fields : HasRemove(f) \/ HasRemove("all")
    /\ \E f \in Fields : Gives(f)
    /\ before # MemoryState
    /\ memory # before
    /\ update_from_dict(memory, llm.val).mem = memory

\* ------------------------------------------------------------------------
\* C12
\* ------------------------------------------------------------------------
\* rows of every kind of the model
SomeRows == ColorCatalog \cup SeveralRangesCatalog \cup SampleCatalog(3, 2)

\* C12: when every field of the memory is at its empty default, the filter
\* build_sql_from_memory produces is TRUE, with and without the color
\* mapping, and every row satisfies it; and a field that is at its empty
\* default contributes no condition to the filter, whatever the other
\* fields hold.
C12_EmptyMemoryNoConstraint ==
    /\ memory = MemoryState =>
          \A mapping \in ColorMappings :
              /\ where_clause(memory, mapping) = <<TrueLiteral>>
              /\ \A row \in SomeRows : Where(where_clause(memory, mapping), row)
    /\ LET where == where_clause(memory, COLOR_MAPPING)
       IN \A i \in 1..Len(where) :
             where[i].of \in Fields =>
                 memory[where[i].of] # MemoryState[where[i].of]

\* {REMOVE_all: true} alone on a memory whose filter had conditions: the
\* filter is TRUE again
C12_Witness ==
    /\ OnlyRemove("all")
    /\ conditions(before, COLOR_MAPPING) # <<>>
    /\ memory = MemoryState
    /\ where_clause(memory, COLOR_MAPPING) = <<TrueLiteral>>
    /\ \A row \in SomeRows : Where(where_clause(memory, COLOR_MAPPING), row)

\* ------------------------------------------------------------------------
\* A query, as the properties below see it
\* ------------------------------------------------------------------------
\* run_sql has returned
Ran == sql_result = "rows"
\* the rows of table flowers among the rows returned
Returned_rows == {r.row : r \in rows}
\* the row has color data
HasColorData(row) == row.colors_raw # Null
\* the colors asked for, lower-cased
Requested == LowerAll(memory.colors.l)
\* the event date of the memory's season, NoDate when there is none
EventDate ==
    IF SeasonCondition(memory) = <<>> THEN NoDate
    ELSE <<SeasonCondition(memory)[1].event_month,
           SeasonCondition(memory)[1].event_day>>
\* the place of a (month, day) in the year
Ord(month, day) == 100 * month + day
\* the event date lies in a range that is set: start <= date <= end
Inside(range, date) ==
    /\ range # NoRange
    /\ Ord(range.start_month.n, range.start_day.n) <= Ord(date[1], date[2])
    /\ Ord(date[1], date[2]) <= Ord(range.end_month.n, range.end_day.n)
\* the ranges of a row
RangesOf(row) == {row.season, row.season_range_2, row.season_range_3}

\* ------------------------------------------------------------------------
\* C13
\* ------------------------------------------------------------------------
\* C13: when the memory asks for two or more colors that have a boolean
\* column, a row with color data passes the color clause under AND iff the
\* flags of all of them are true and under OR iff the flag of one of them
\* is true; the rows a query returns are among those.
C13_ColorLogic ==
    (Len(Requested) >= 2 /\ \A i \in 1..Len(Requested) : IsBasicColor(Requested[i])) =>
        LET flags(row) == {row[FlagColumn(Requested[i])].b : i \in 1..Len(Requested)}
            wanted(row) == IF memory.color_logic = Str("AND")
                           THEN flags(row) = {TRUE} ELSE TRUE \in flags(row)
        IN /\ \A row \in flowers :
                 HasColorData(row) =>
                     (Where(ColorsCondition(memory, COLOR_MAPPING), row) <=> wanted(row))
           /\ Ran => \A row \in Returned_rows : wanted(row)

\* colors red and white under AND: a row with color data and only the red
\* flag is not returned, a row with both flags is
C13_Witness ==
    /\ Ran
    /\ memory.colors = List(<<"red", "white">>)
    /\ memory.color_logic = Str("AND")
    /\ \E row \in flowers \ Returned_rows :
          /\ HasColorData(row)
          /\ row.has_red = Bool(TRUE) /\ row.has_white = Bool(FALSE)
    /\ \E row \in Returned_rows : row.has_red = Bool(TRUE) /\ row.has_white = Bool(TRUE)

\* ------------------------------------------------------------------------
\* C14
\* ------------------------------------------------------------------------
\* C14: for every excluded color name, a row with color data passes the
\* test the exclude_colors clause builds for the name iff it fails the test
\* the colors clause builds for the same name.
C14_ExclusionMirrorsInclusion ==
    Ran =>
        \A i \in 1..Len(memory.exclude_colors.l) :
            LET color == memory.exclude_colors.l[i]
                included == color_condition(color, COLOR_MAPPING)
                passes(row) == /\ included # <<>>
                               /\ ColorTest(included[1], row) = "TRUE"
            IN \A row \in flowers :
                 HasColorData(row) =>
                     (ColorTest(exclude_color_condition(color), row) = "TRUE"
                          <=> ~passes(row))

\* ------------------------------------------------------------------------
\* C15
\* ------------------------------------------------------------------------
\* C15: for a range whose start is not later than its end and a valid event
\* date, the range condition is true iff start <= date <= end in (month,
\* day) order, the boundaries included; a query on rows that have this one
\* range and are not year-round returns only rows whose range holds the date.
C15_RangeInclusive ==
    EventDate # NoDate =>
        /\ \A row \in flowers :
              (/\ row.season # NoRange
               /\ Ord(row.season.start_month.n, row.season.start_day.n)
                    <= Ord(row.season.end_month.n, row.season.end_day.n)) =>
                  (build_range_condition(row.season, EventDate[1], EventDate[2]) = "TRUE"
                       <=> Inside(row.season, EventDate))
        /\ (Ran /\ flowers = OneRangeCatalog) =>
              \A row \in Returned_rows : Inside(row.season, EventDate)

\* the range Jun 1 - Jun 30: a query for Jun 30 returns its row, and its
\* condition holds on Jun 1 and Jun 30 and not on May 31 and Jul 1
C15_Witness ==
    /\ Ran
    /\ EventDate = <<6, 30>>
    /\ \E row \in Returned_rows :
          /\ row.season = Range(6, 1, 6, 30)
          /\ build_range_condition(row.season, 6, 1) = "TRUE"
          /\ build_range_condition(row.season, 6, 30) = "TRUE"
          /\ build_range_condition(row.season, 5, 31) # "TRUE"
          /\ build_range_condition(row.season, 7, 1) # "TRUE"

Covers(range, date) ==
    /\ range # NoRange
    /\ LET start == Ord(range.start_month.n, range.start_day.n)
           end == Ord(range.end_month.n, range.end_day.n)
           day == Ord(date[1], date[2])
       IN IF start <= end THEN start <= day /\ day <= end
          ELSE start <= day \/ day <= end

\* C17: every range the data preparation writes has its start not later
\* than its end, and a query for a date returns every product whose source
\* seasonality covers the date (the table holding no more products than the
\* window).
C17_NoWraparoundStored ==
    /\ \A row \in flowers : \A range \in RangesOf(row) :
          range # NoRange =>
              Ord(range.start_month.n, range.start_day.n)
                  <= Ord(range.end_month.n, range.end_day.n)
    /\ (Ran /\ EventDate # NoDate /\ Cardinality(flowers) <= WindowSize) =>
          \A row \in flowers :
              (\/ row.is_year_round = Bool(TRUE)
               \/ \E range \in RangesOf(row) : Covers(range, EventDate))
                  => row \in Returned_rows

\* ------------------------------------------------------------------------
\* C18, C19, C20
\* ------------------------------------------------------------------------
\* the rows of the table that satisfy the filter compiled from the memory
Passing == {row \in flowers : Where(where_clause(memory, COLOR_MAPPING), row)}
\* C: the number of distinct products among them
DistinctProducts == Cardinality({row.product_name : row \in Passing})

\* C18: no two rows a query returns have the same product_name.
C18_DistinctProducts ==
    Ran => \A a, b \in rows : a.row.product_name = b.row.product_name => a = b

\* two variants of one product satisfy the filter; one is returned, the
\* other is not
C18_Witness ==
    /\ Ran
    /\ \E a \in Passing \cap Returned_rows, b \in Passing \ Returned_rows :
          a.product_name = b.product_name

\* C19: a query returns exactly min(C, 6) rows, C being the number of
\* distinct products that satisfy the filter, and every row returned
\* satisfies the filter.
C19_BoundedWindow ==
    Ran =>
        /\ Cardinality(rows) =
              IF DistinctProducts <= WindowSize THEN DistinctProducts ELSE WindowSize
        /\ Cardinality(Returned_rows) = Cardinality(rows)
        /\ Returned_rows \subseteq Passing

\* more than six products satisfy a filter that some rows fail, and six
\* rows are returned
C19_Witness ==
    /\ Ran
    /\ DistinctProducts > WindowSize
    /\ Passing # flowers
    /\ Cardinality(Returned_rows) = WindowSize

\* the values of random() the model draws are close enough to tell apart
\* all the offsets of a table of c rows
Resolved(c) == GREATEST(0, c - WindowSize) <= RandomSteps

\* C20: whichever row of each product the query keeps, the offsets r the
\* random draws can give are exactly 0..max(0, C - 6), the rows returned are
\* those of rank r+1..r+6, and every ranked row is returned for some draw.
C20_OffsetRange ==
    Ran =>
        /\ \A x \in rows : x.r < x.rn /\ x.rn <= x.r + WindowSize
        /\ \A f \in filtered(flowers, build_sql_from_memory(memory, COLOR_MAPPING).where) :
              LET c == Cardinality(f)
                  draws == 0..(RandomSteps - 1)
              IN Resolved(c) =>
                   /\ {params(c, draw) : draw \in draws} = 0..GREATEST(0, c - WindowSize)
                   /\ \A n \in numbered(f) :
                         \E draw \in draws : \E x \in select(f, draw) : x.row = n.row

\* ------------------------------------------------------------------------
\* C21
\* ------------------------------------------------------------------------
\* the budget sub-key is set
BudgetSet(key) == memory.budget[key] # Null
\* the bounds the claim gives the price of a row, one for each sub-key set
WithinBudget(row) ==
    /\ BudgetSet("max") =>
          row.variant_price # Null /\ row.variant_price.n < memory.budget["max"].n
    /\ BudgetSet("min") =>
          row.variant_price # Null /\ row.variant_price.n >= memory.budget["min"].n
    /\ BudgetSet("around") =>
          /\ row.variant_price # Null
          /\ row.variant_price.n >= memory.budget["around"].n - 20
          /\ row.variant_price.n <= memory.budget["around"].n + 20
\* the row passes every budget condition of the WHERE clause
PassesBudget(row) ==
    \A i \in 1..Len(BudgetConditions(memory)) :
        Condition(BudgetConditions(memory)[i], row) = "TRUE"

\* C21: a row passes the budget conditions of the query iff its price is
\* not null and below max, at least min, and within around - 20 and
\* around + 20, for each of the sub-keys that is set; a sub-key that is not
\* set adds no condition; the rows a query returns are within the budget.
C21_BudgetTranslation ==
    /\ Len(BudgetConditions(memory)) =
          Cardinality({key \in BudgetKeys : BudgetSet(key)})
    /\ \A row \in flowers : PassesBudget(row) <=> WithinBudget(row)
    /\ Ran => \A row \in Returned_rows : WithinBudget(row)

\* a query with max, min and around set over rows with and without price:
\* the rows returned are those of price 50..90, and rows of price 49, 91
\* and without price are not returned
C21_Witness ==
    /\ Ran
    /\ BudgetSet("max") /\ BudgetSet("min") /\ BudgetSet("around")
    /\ {row.variant_price : row \in Returned_rows} \cap {Num(50), Num(90)} # {}
    /\ \A row \in flowers :
          row.variant_price \in {Null, Num(49), Num(91), Num(100)}
              => row \notin Returned_rows
    /\ \E row \in flowers : row.variant_price = Null
    /\ \E row \in flowers : row.variant_price = Num(91)

\* ------------------------------------------------------------------------
\* C22
\* ------------------------------------------------------------------------
\* the days of a month of the calendar, February with its leap day
DaysIn(month) ==
    IF month = 2 THEN 29 ELSE IF month \in {4, 6, 9, 11} THEN 30 ELSE 31
\* the date parse_season_to_date returns for the season of the memory
SeasonDate == parse_season_to_date(memory.season.s)
\* the WHERE clause has a seasonality condition
HasSeasonClause ==
    \E i \in 1..Len(where_clause(memory, COLOR_MAPPING)) :
        where_clause(memory, COLOR_MAPPING)[i].of = "season"

\* C22: parse_season_to_date returns no date or a (month, day) with month
\* in 1..12 and day within the days of the month (February 29 allowed);
\* for "February 30" it returns no date; the seasonality clause is in the
\* filter exactly when a date is returned, and without a date the filter
\* is the one of the same memory with no season.
C22_InvalidDateNoClause ==
    IF ~Truthy(memory.season) THEN ~HasSeasonClause
    ELSE /\ \/ SeasonDate = NoDate
            \/ /\ SeasonDate[1] \in 1..12
               /\ SeasonDate[2] \in 1..DaysIn(SeasonDate[1])
         /\ memory.season = Str("February 30") => SeasonDate = NoDate
         /\ HasSeasonClause <=> SeasonDate # NoDate
         /\ SeasonDate = NoDate =>
               where_clause(memory, COLOR_MAPPING) =
                 where_clause([memory EXCEPT !.season = Null], COLOR_MAPPING)

\* a query with the season "February 30" over rows with seasonal ranges:
\* no row is filtered out, rows out of season in February are returned
C22_Witness ==
    /\ Ran
    /\ memory.season = Str("February 30")
    /\ Passing = flowers
    /\ \E row \in Returned_rows : row.season = DateRange(5, 6)

\* ------------------------------------------------------------------------
\* C25
\* ------------------------------------------------------------------------
\* the start of the range is later in the calendar than its end
SpansYearBoundary(range) ==
    /\ range # NoRange
    /\ Ord(range.start_month.n, range.start_day.n)
          > Ord(range.end_month.n, range.end_day.n)

\* C25: for a stored range whose start is later in the calendar than its
\* end, the condition build_range_condition builds holds on every event
\* date inside the span (on or after the start, or on or before the end).
C25_RangeSpansYearBoundary ==
    (Ran /\ EventDate # NoDate) =>
        \A row \in flowers : \A range \in RangesOf(row) :
            (SpansYearBoundary(range) /\ Covers(range, EventDate)) =>
                build_range_condition(range, EventDate[1], EventDate[2]) = "TRUE"

\* ------------------------------------------------------------------------
\* C27
\* ------------------------------------------------------------------------
\* no excluded fragment occurs, whatever the case, in any of the four
\* fields of the row that hold a text
NoExcludedFragment(row) ==
    \A i \in 1..Len(memory.exclude_flower_types.l) :
        \A col \in FlowerColumns :
            \/ row[col] = Null
            \/ ~Contains(lower(Chars(row[col].s)),
                         lower(Chars(memory.exclude_flower_types.l[i])))
\* the row passes the exclude_flower_types condition of the WHERE clause
PassesExcludeFlowerTypes(row) ==
    \A i \in 1..Len(PatternsCondition(memory, "exclude_flower_types")) :
        Condition(PatternsCondition(memory, "exclude_flower_types")[i], row) = "TRUE"

\* C27: for every row of the table, rows with null fields among
\* group_category, recipe_metafield, product_type_all_flowers and
\* product_name included, the row passes the exclude_flower_types clause
\* iff no excluded fragment occurs in any of its four fields.
C27_ExcludeFlowerTypes ==
    (Ran /\ Truthy(memory.exclude_flower_types)) =>
        \A row \in flowers :
            PassesExcludeFlowerTypes(row) <=> NoExcludedFragment(row)

\* ------------------------------------------------------------------------
\* C26
\* ------------------------------------------------------------------------
\* the field holds the value the update gives it (of the budget: the
\* sub-keys the update gives hold the update's values)
HoldsGiven(g) ==
    IF g = "budget"
    THEN \A k \in DOMAIN GetKey(items, g).d :
            memory.budget[k] = GetKey(items, g).d[k]
    ELSE memory[g] = GetKey(items, g)
\* the update in every order of its keys
Orderings ==
    {[i \in 1..Len(items) |-> items[p[i]]] :
        p \in {q \in [1..Len(items) -> 1..Len(items)] :
                 \A i, j \in 1..Len(items) : q[i] = q[j] => i = j}}
\* the memory is the one update_from_dict leaves for every order of the keys
SameForEveryOrder ==
    \A data \in Orderings : update_from_dict(before, Obj(data)).mem = memory
\* the update holds REMOVE_<f>: true for a field f and gives a field a
\* non-empty value
RemovesAndGives ==
    /\ IsUpdate /\ Returned
    /\ \E f \in Fields : RemoveTrue(f)
    /\ \E g \in Fields : Gives(g)

\* C26 as stated: after an update that holds REMOVE_f: true and gives a
\* field g a non-empty value v, g holds v, f (when the update gives it no
\* value) is at its default, and the memory is the same for every order of
\* the keys of the update.
C26_RemovalsFirst ==
    RemovesAndGives =>
        /\ \A g \in Fields : Gives(g) => HoldsGiven(g)
        /\ \A f \in Fields :
              (RemoveTrue(f) /\ ~Gives(f)) => memory[f] = MemoryState[f]
        /\ SameForEveryOrder

\* C26 amended: as C26 for every f but color_logic; REMOVE_color_logic is
\* no directive of the code: color_logic keeps its value unless the update
\* gives it one.
C26_RemovalsFirstButColorLogic ==
    RemovesAndGives =>
        /\ \A g \in Fields : Gives(g) => HoldsGiven(g)
        /\ \A f \in Fields \ {"color_logic"} :
              (RemoveTrue(f) /\ ~Gives(f)) => memory[f] = MemoryState[f]
        /\ (RemoveTrue("color_logic") /\ ~Gives("color_logic")
               /\ ~HasRemove("all"))
              => memory.color_logic = before.color_logic
        /\ SameForEveryOrder

\* the update gives a field after the directive that removes it, on a
\* memory in which the field held another value: the field holds the
\* given value; and a directive after the value of another field, set
\* before, leaves that field at its default
C26_Witness ==
    /\ RemovesAndGives
    /\ \/ \E f \in ListFields :
             /\ Gives(f) /\ Len(items) = 2
             /\ items[2] = <<RemoveKey(f), Bool(TRUE)>>
             /\ IsSet(before[f]) /\ before[f] # GetKey(items, f)
             /\ memory[f] = GetKey(items, f)
       \/ /\ items = <<<<Key("season"), Str("spring")>>,
                       <<RemoveKey("colors"), Bool(TRUE)>>>>
          /\ before.colors # List(<<>>) /\ memory.colors = List(<<>>)
          /\ memory.season = Str("spring")

\* ------------------------------------------------------------------------
\* C28
\* ------------------------------------------------------------------------
\* the update holds nothing but REMOVE_ directives whose value is false or
\* null
OnlyUntrueDirectives ==
    /\ IsUpdate /\ items # <<>>
    /\ \A i \in 1..Len(items) :
          StartsWithRemove(items[i][1]) /\ items[i][2] \in {Bool(FALSE), Null}

\* C28: an update whose REMOVE_f or REMOVE_all directives are mapped to
\* false or null leaves the memory as it was.
C28_UntrueDirectiveNoEffect == OnlyUntrueDirectives => memory = before

\* ------------------------------------------------------------------------
\* The server, as the properties below see it
\* ------------------------------------------------------------------------
\* the thread takes the step
Stepping(t) == frame'[t] # frame[t]
\* the preference memory held for the session: that of its entry in
\* chatbots, none without entry
Held(s) == {consultants[chatbots[x]].memory : x \in DOMAIN chatbots \cap {s}}
\* the thread is inside bot.ask: the turn has updated the memory and has
\* not yet printed its answer
InTurn(t) == At(t, "print")

\* ------------------------------------------------------------------------
\* C23
\* ------------------------------------------------------------------------
\* a step of no request of session s leaves the memory held for s as it is
SessionIsolated ==
    \A s \in Sessions :
        (\A t \in Threads :
            Stepping(t) => frame[t].session_id # s /\ frame'[t].session_id # s)
          => Held(s)' = Held(s)
\* after a /reset of s that has returned while no /chat of s was handled,
\* no memory is held for s until a /chat of s is accepted, and the
\* FlowerConsultant a /chat puts into chatbots has an empty memory
FreshAfterReset ==
    \A s \in Sessions :
        /\ clean'[s] => Held(s)' = {}
        /\ (/\ s \in DOMAIN chatbots'
            /\ (s \in DOMAIN chatbots => chatbots'[s] # chatbots[s]))
              => Held(s)' = {MemoryState}

\* C23: in every interleaving of the steps of /chat and /reset requests, a
\* step of a request of session A leaves the memory held for another
\* session B unchanged; after /reset of A no memory is held for A, and the
\* next /chat of A creates a FlowerConsultant with an empty memory.
C23_SessionIsolation == [][SessionIsolated /\ FreshAfterReset]_vars

\* session B holds a memory with a preference, session A held one and its
\* /reset has returned: nothing is held for A
C23_Witness ==
    /\ clean["A"] /\ Held("A") = {}
    /\ Len(consultants) = 2
    /\ \A i \in 1..2 : consultants[i].memory # MemoryState
    /\ Held("B") # {} /\ Held("B") # {MemoryState}

\* ------------------------------------------------------------------------
\* C24
\* ------------------------------------------------------------------------
\* C24: the turns of two /chat requests of the same session id never
\* overlap (no two threads are inside bot.ask for the same session id at
\* once), and at most one FlowerConsultant is created for a session id
\* between two resets.
C24_NoConcurrentMutation ==
    /\ \A t1, t2 \in Threads :
          (t1 # t2 /\ InTurn(t1) /\ InTurn(t2))
              => frame[t1].session_id # frame[t2].session_id
    /\ \A s \in Sessions : created[s] <= 1

\* ------------------------------------------------------------------------
\* C29
\* ------------------------------------------------------------------------
\* C29: the response of a /chat request is exactly what its own bot.ask
\* printed, and when no request is being handled sys.stdout is the
\* original stream.
C29_ResponsePerRequest ==
    /\ \A t \in Threads :
          At(t, "restore") => frame[t].response = <<frame[t].n>>
    /\ (\A t \in Threads : At(t, "idle")) => sys_stdout = Original

\* ------------------------------------------------------------------------
\* consultation.py: FlowerConsultantChat
\* ------------------------------------------------------------------------
\* the first entry of the table whose key occurs in the text
FirstIn(table, text, default) ==
    IF \A i \in 1..Len(table) : ~Contains(text, table[i][1]) THEN default
    ELSE table[CHOOSE i \in 1..Len(table) :
                  /\ Contains(text, table[i][1])
                  /\ \A j \in 1..(i - 1) : ~Contains(text, table[j][1])][2]

\* sorted(OCCASIONS, key=len, reverse=True), each with what
\* _extract_occasion returns for it; "" stands for None
OCCASIONS ==
    Keyed(<<<<"bridal shower", "bridal shower">>,
           <<"mother's day", "mother's day">>,
           <<"thanksgiving", "thanksgiving">>,
           <<"anniversary", "anniversary">>,
           <<"baby shower", "baby shower">>,
           <<"valentine's", "valentine's">>,
           <<"celebration", "celebration">>,
           <<"graduation", "graduation">>,
           <<"homecoming", "homecoming">>,
           <<"valentine", "valentine's">>,
           <<"christmas", "christmas">>,
           <<"birthday", "birthday">>,
           <<"sympathy", "sympathy">>,
           <<"wedding", "wedding">>,
           <<"funeral", "funeral">>,
           <<"holiday", "holiday">>,
           <<"easter", "easter">>,
           <<"party", "party">>,
           <<"prom", "prom">>>>)
extract_occasion(text) == FirstIn(OCCASIONS, lower(text), "")

\* the words _extract_effort_type looks for, in the order of its tests,
\* then EFFORT_TYPES, each with what is returned for it
EFFORT_TYPES ==
    Keyed(<<<<"diy", "diy flower kits">>,
           <<"do it myself", "diy flower kits">>,
           <<"make myself", "diy flower kits">>,
           <<"assemble", "diy flower kits">>,
           <<"bouquet", "bouquets">>,
           <<"bouquets", "bouquets">>,
           <<"centerpiece", "centerpieces">>,
           <<"centerpieces", "centerpieces">>,
           <<"focal", "focal flowers">>,
           <<"statement", "focal flowers">>,
           <<"arrangement", "arrangements">>,
           <<"arrangements", "arrangements">>,
           <<"premade", "arrangements">>,
           <<"ready", "arrangements">>,
           <<"diy", "diy">>,
           <<"diy flower kits", "diy flower kits">>,
           <<"focal flowers", "focal flowers">>,
           <<"centerpieces", "centerpieces">>,
           <<"bouquets", "bouquets">>,
           <<"arrangements", "arrangements">>,
           <<"premade", "premade">>,
           <<"ready-made", "ready-made">>,
           <<"custom", "custom">>>>)
extract_effort_type(text) == FirstIn(EFFORT_TYPES, lower(text), "")

\* re.search(rf"\b{word}\b", t) for a word that begins and ends with a
\* word character
WordIn(t, word) ==
    \E i \in 0..(Len(t) - Len(word)) :
        /\ \A j \in 1..Len(word) : t[i + j] = word[j]
        /\ i = 0 \/ ~IsWord(t[i])
        /\ i + Len(word) = Len(t) \/ ~IsWord(t[i + Len(word) + 1])
\* the members of COLOR_VOCAB and FLOWER_VOCAB that occur in the messages
\* of the model
COLOR_VOCAB == Keyed(<<<<"red", "red">>, <<"white", "white">>, <<"pink", "pink">>>>)
FLOWER_VOCAB == Keyed(<<<<"rose", "rose">>, <<"lily", "lily">>, <<"peony", "peony">>>>)
Found(vocab, t) == {vocab[i][2] : i \in {k \in 1..Len(vocab) : WordIn(t, vocab[k][1])}}
\* _extract_prefs: (colors, flowers)
extract_prefs(text) ==
    [colors |-> Found(COLOR_VOCAB, lower(text))
                  \cup (IF Contains(lower(text), Chars("blush pink"))
                        THEN {"blush"} ELSE {}),
     flowers |-> Found(FLOWER_VOCAB, lower(text))]

\* _parse_event_date on the messages of the model: (year, month, day), <<>>
\* for None
parse_event_date(message) ==
    IF message = "09/21/2025" THEN <<2025, 9, 21>> ELSE <<>>
\* _season_from_iso
season_from_iso(iso_date) ==
    IF iso_date[2] \in {3, 4, 5} THEN "spring"
    ELSE IF iso_date[2] \in {6, 7, 8} THEN "summer"
    ELSE IF iso_date[2] \in {9, 10, 11} THEN "fall"
    ELSE "winter"

skip_phrases ==
    Keyed(<<<<"no date", TRUE>>, <<"don't know", TRUE>>, <<"not sure", TRUE>>,
           <<"skip", TRUE>>, <<"no theme", TRUE>>, <<"no specific", TRUE>>>>)
is_skip(msg_lower) == FirstIn(skip_phrases, msg_lower, FALSE)
NotATheme == Keyed(<<<<"no theme", TRUE>>, <<"none", TRUE>>, <<"skip", TRUE>>>>)
NoPreference == Keyed(<<<<"no preference", TRUE>>, <<"anything", TRUE>>>>)

\* the parts of _update_state_from_message, each on the state it is given
WithDate(state, iso, phase) ==
    IF iso = <<>> THEN [state EXCEPT !.phase = phase]
    ELSE [state EXCEPT !.event_date = iso, !.season = season_from_iso(iso),
                       !.phase = phase]
WithTheme(state, message) ==
    IF Get(NotATheme, lower(Chars(message)), FALSE)
    THEN [state EXCEPT !.phase = "effort"]
    ELSE [state EXCEPT !.theme = strip(Chars(message)), !.phase = "effort"]
\* `if occasion and effort_type: phase = "recommendations"`
ToRecommendations(state) ==
    IF state.occasion # "" /\ state.effort_type # ""
    THEN [state EXCEPT !.phase = "recommendations"] ELSE state
WithPreferences(state, message, found) ==
    [state EXCEPT !.preferences =
        [colors |-> state.preferences.colors \cup found.colors,
         flowers |-> state.preferences.flowers \cup found.flowers,
         raw |-> message]]
InPreferences(state, message, msg_lower) ==
    IF FirstIn(NoPreference, msg_lower, FALSE)
    THEN ToRecommendations(
           [state EXCEPT !.preferences =
               [colors |-> {}, flowers |-> {}, raw |-> message]])
    ELSE ToRecommendations(
           WithPreferences(state, message, extract_prefs(Chars(message))))
\* "If user voluntarily provides missing info earlier than asked"
VoluntaryOccasion(state, message) ==
    IF state.occasion = "" /\ extract_occasion(Chars(message)) # ""
    THEN [state EXCEPT !.occasion = extract_occasion(Chars(message))]
    ELSE state
VoluntaryDate(state, message, phase) ==
    IF state.event_date = <<>> /\ phase # "date"
    THEN WithDate(state, parse_event_date(message), state.phase)
    ELSE state
VoluntaryEffort(state, message) ==
    IF state.effort_type = "" /\ extract_effort_type(Chars(message)) # ""
    THEN [state EXCEPT !.effort_type = extract_effort_type(Chars(message))]
    ELSE state
VoluntaryPreferences(state, message, phase, found) ==
    IF phase \in {"preferences", "recommendations"}
         /\ (found.colors # {} \/ found.flowers # {})
    THEN WithPreferences(state, message, found)
    ELSE state

\* _update_state_from_message: the state it leaves
update_state_from_message(state, message) ==
    IF state.phase \in {"greeting", "occasion"}
         /\ extract_occasion(Chars(message)) # ""
    THEN [state EXCEPT !.occasion = extract_occasion(Chars(message)),
                       !.phase = "date"]
    ELSE IF state.phase = "date"
    THEN IF is_skip(strip(lower(Chars(message))))
         THEN [state EXCEPT !.phase = "theme"]
         ELSE WithDate(state, parse_event_date(message), "theme")
    ELSE IF state.phase = "theme"
    THEN IF is_skip(strip(lower(Chars(message))))
         THEN [state EXCEPT !.phase = "effort"]
         ELSE WithTheme(state, message)
    ELSE IF state.phase = "effort" /\ extract_effort_type(Chars(message)) # ""
    THEN [state EXCEPT !.effort_type = extract_effort_type(Chars(message)),
                       !.phase = "preferences"]
    ELSE IF state.phase = "preferences"
    THEN InPreferences(state, message, strip(lower(Chars(message))))
    ELSE VoluntaryPreferences(
           VoluntaryEffort(
             VoluntaryDate(VoluntaryOccasion(state, message), message, state.phase),
             message),
           message, state.phase, extract_prefs(Chars(message)))

\* the dispatch of ask on the phase _update_state_from_message has left:
\* the state and the reply, named after what it asks the user for
\* ("greeting": the greeting with the occasion question)
Reply(state, phase, reply_) == [state |-> [state EXCEPT !.phase = phase], reply |-> reply_]
Dispatch(state) ==
    CASE state.phase = "greeting" -> Reply(state, "occasion", "greeting")
      [] state.phase = "occasion" ->
           IF state.occasion = "" THEN Reply(state, "occasion", "occasion")
           ELSE Reply(state, "date", "date")
      [] state.phase = "date" -> Reply(state, "theme", "theme")
      [] state.phase = "theme" -> Reply(state, "effort", "effort")
      [] state.phase = "effort" ->
           IF state.effort_type = "" THEN Reply(state, "effort", "effort")
           ELSE Reply(state, "preferences", "preferences")
      [] state.phase = "preferences" ->
           IF /\ state.preferences.colors = {}
              /\ state.preferences.flowers = {}
              /\ state.preferences.raw = ""
           THEN Reply(state, "preferences", "preferences")
           ELSE Reply(state, "recommendations", "recommendations")
      [] state.phase = "recommendations" ->
           Reply(state, "recommendations", "recommendations")

\* the messages of the user: the empty one start_consultation sends, a
\* greeting, an occasion, a skip, a date, a theme, an effort type, and
\* preferences
UserMessages ==
    {"", "hi", "a wedding", "no date yet", "09/21/2025", "rustic", "bouquets",
     "red roses", "no preference"}

\* FlowerConsultantChat.ask(message)
chat_ask(message) ==
    /\ turns < MaxMessages
    /\ turns' = turns + 1
    /\ previous_state' = consultation_state
    /\ consultation_state' =
          Dispatch(update_state_from_message(consultation_state, message)).state
    /\ reply' = Dispatch(update_state_from_message(consultation_state, message)).reply
    /\ asked' = Append(asked, reply')
    /\ UNCHANGED <<consultant_vars, web_vars>>

\* FlowerConsultantChat.reset_consultation, on 'restart'
reset_consultation ==
    /\ turns > 0
    /\ consultation_state # ConsultationStart
    /\ consultation_state' = ConsultationStart
    /\ previous_state' = ConsultationStart
    /\ reply' = ""
    /\ asked' = <<>>
    /\ UNCHANGED turns
    /\ UNCHANGED <<consultant_vars, web_vars>>

InitChat == InitWeb
NextChat == (\E message \in UserMessages : chat_ask(message)) \/ reset_consultation
SpecChat == InitChat /\ [][NextChat]_vars

\* ------------------------------------------------------------------------
\* C30
\* ------------------------------------------------------------------------
\* the last call of ask recognised the occasion
OccasionRecognised ==
    turns > 0 /\ previous_state.occasion = "" /\ consultation_state.occasion # ""

\* C30: the reply of the call of ask that recognises the occasion asks for
\* the event date, and a reply asks for the theme only when an earlier
\* reply of the consultation has asked for the date.
C30_QuestionOrder ==
    /\ OccasionRecognised => reply = "date"
    /\ reply = "theme" => \E i \in 1..(Len(asked) - 1) : asked[i] = "date"

====
